---- MODULE Spec2Model ----
(***************************************************************************)
(* A model of pymodbus3: the four wire framers, the decoder factories, the *)
(* transaction managers, the asynchronous client protocol and the          *)
(* synchronous execute / handle_message_framing state machine.             *)
(*                                                                         *)
(* Bytes are the integers 0..255 and a bytes object is a sequence of them. *)
(* Python values whose type varies at run time are tagged records          *)
(* [t |-> <type>, v |-> <content>].                                        *)
(***************************************************************************)
EXTENDS Integers, Sequences, FiniteSets, TLC

VARIABLES
    framer,        \* the framer object: kind, decoder, buffer, header
    transactions,  \* the manager's table: a function tid -> entry (keyed) or a sequence (FIFO)
    tid,           \* the manager's transaction id counter
    manager,       \* "dict" or "fifo": which manager class owns the table
    connected,     \* ModbusClientProtocol._connected
    transport,     \* the protocol's transport: "none" before connection_made, "open", "closed"
    handles,       \* the deferreds handed out: sequence of [tid, state, reply, fired]
    written,       \* the requests the protocol wrote to its transport, in order
    wire,          \* bytes the peer wrote and data_received has not seen; bytes a server wrote
    raised,        \* the exception that left the last operation ("" when it returned)
    pdu,           \* the message given to build_packet in the byte-feed scenario
    stream,        \* the byte stream the scenario feeds to the framer
    pos,           \* how many bytes of stream have been supplied
    marks,         \* end offsets of the frames that make up stream
    delivered,     \* the results passed to the callback, in order
    last,          \* what the last call did or returned
    client,        \* the synchronous transport: counters and the bytes it will deliver
    sync,          \* the synchronous execute in progress: pc, state, retries, request, result
    server,        \* the server protocol: which one, control.ListenOnly, control.Counter.BusMessage
    store          \* the server's datastore: the ModbusServerContext

vars == <<framer, transactions, tid, manager, connected, transport, handles, written,
          wire, raised, pdu, stream, pos, marks, delivered, last, client, sync,
          server, store>>

-----------------------------------------------------------------------------
(* Python built-ins on bytes *)

\* s[a:b] with Python's clamping and negative indices
PySlice(s, a, b) ==
    LET n  == Len(s)
        lo == IF a < 0 THEN (IF n + a < 0 THEN 0 ELSE n + a) ELSE (IF a > n THEN n ELSE a)
        hi == IF b < 0 THEN (IF n + b < 0 THEN 0 ELSE n + b) ELSE (IF b > n THEN n ELSE b)
    IN  IF lo < hi THEN SubSeq(s, lo + 1, hi) ELSE <<>>

\* s[a:]
PyFrom(s, a) == PySlice(s, a, Len(s))

\* s.find(pat): the lowest 0-based index where pat occurs, or -1
Find(s, pat) ==
    LET hits == {i \in 0..(Len(s) - Len(pat)) : SubSeq(s, i + 1, i + Len(pat)) = pat}
    IN  IF hits = {} THEN -1 ELSE CHOOSE i \in hits : \A j \in hits : i <= j

\* bit k (a power of two) of x
Bit(x, k) == (x \div k) % 2

\* a ^ b on 16-bit values
Xor(a, b) ==
    LET x(k) == k * ((Bit(a, k) + Bit(b, k)) % 2)
    IN  x(1) + x(2) + x(4) + x(8) + x(16) + x(32) + x(64) + x(128) + x(256) + x(512)
        + x(1024) + x(2048) + x(4096) + x(8192) + x(16384) + x(32768)

RECURSIVE Sum(_)
Sum(s) == IF s = <<>> THEN 0 ELSE Head(s) + Sum(Tail(s))

RECURSIVE Concat(_)
Concat(ss) == IF ss = <<>> THEN <<>> ELSE Head(ss) \o Concat(Tail(ss))

\* struct.pack('>H', v)
PackH(v) == << (v \div 256) % 256, v % 256 >>

\* struct.unpack('>H', two bytes)[0]
UnpackH(b) == b[1] * 256 + b[2]

-----------------------------------------------------------------------------
(* pymodbus3.utilities: checksums *)

\* one right shift of the register, XOR the polynomial 0xA001 when a 1 falls out
crc_shift(crc) == IF crc % 2 = 1 THEN Xor(crc \div 2, 40961) ELSE crc \div 2

\* the update for one byte: XOR it in, then eight shifts
crc_byte(crc, b) ==
    LET c0 == Xor(crc, b)
        c1 == crc_shift(c0)
        c2 == crc_shift(c1)
        c3 == crc_shift(c2)
        c4 == crc_shift(c3)
        c5 == crc_shift(c4)
        c6 == crc_shift(c5)
        c7 == crc_shift(c6)
    IN  crc_shift(c7)

\* the register after every byte of data (the test on crc makes the evaluator
\* compute the register byte by byte)
RECURSIVE crc16(_, _)
crc16(data, crc) ==
    IF crc < 0 \/ data = <<>> THEN crc
    ELSE crc16(Tail(data), crc_byte(crc, Head(data)))

\* CRC-16, initial value 0xFFFF, polynomial 0xA001; the result is byte-swapped so
\* that packing it '>H' puts the low byte first on the wire
compute_crc(data) ==
    LET crc == crc16(data, 65535)
    IN  (crc % 256) * 256 + (crc \div 256)

check_crc(data, check) == compute_crc(data) = check

\* LRC-8: the two's complement of the byte sum, low byte
compute_lrc(data) == (256 - (Sum(data) % 256)) % 256

check_lrc(data, check) == compute_lrc(data) = check

-----------------------------------------------------------------------------
(* binascii and int(x, 16) on ASCII text *)

\* one lowercase hex digit, as b2a_hex and '%02x' produce it
HexChar(n) == IF n < 10 THEN 48 + n ELSE 87 + n

\* bytes.upper() on one byte
Upper(c) == IF c >= 97 /\ c <= 122 THEN c - 32 ELSE c

UpperAll(s) == [i \in 1..Len(s) |-> Upper(s[i])]

\* the value of a hex digit, -1 for any other character
HexVal(c) ==
    IF c >= 48 /\ c <= 57 THEN c - 48
    ELSE IF c >= 65 /\ c <= 70 THEN c - 55
    ELSE IF c >= 97 /\ c <= 102 THEN c - 87
    ELSE -1

RECURSIVE b2a_hex(_)
b2a_hex(data) ==
    IF data = <<>> THEN <<>>
    ELSE << HexChar(Head(data) \div 16), HexChar(Head(data) % 16) >> \o b2a_hex(Tail(data))

\* a2b_hex(text): binascii.Error on odd length or a non-hex character
a2b_hex(text) ==
    IF Len(text) % 2 # 0 \/ \E i \in 1..Len(text) : HexVal(text[i]) = -1
    THEN [raised |-> TRUE, v |-> <<>>]
    ELSE [raised |-> FALSE,
          v |-> [i \in 1..(Len(text) \div 2) |->
                    HexVal(text[2 * i - 1]) * 16 + HexVal(text[2 * i])]]

\* the bytes int() strips from both ends of its argument
Whitespace == {9, 10, 11, 12, 13, 32}

\* int(text, 16) on a slice of at most two characters: hex digits, with leading
\* or trailing whitespace or a leading sign allowed; ValueError otherwise
int16(text) ==
    IF Len(text) = 2 /\ HexVal(text[1]) # -1 /\ HexVal(text[2]) # -1
    THEN [raised |-> FALSE, v |-> HexVal(text[1]) * 16 + HexVal(text[2])]
    ELSE IF Len(text) = 2 /\ text[1] \in Whitespace \cup {43} /\ HexVal(text[2]) # -1
    THEN [raised |-> FALSE, v |-> HexVal(text[2])]
    ELSE IF Len(text) = 2 /\ text[1] = 45 /\ HexVal(text[2]) # -1
    THEN [raised |-> FALSE, v |-> 0 - HexVal(text[2])]
    ELSE IF Len(text) = 2 /\ HexVal(text[1]) # -1 /\ text[2] \in Whitespace
    THEN [raised |-> FALSE, v |-> HexVal(text[1])]
    ELSE IF Len(text) = 1 /\ HexVal(text[1]) # -1
    THEN [raised |-> FALSE, v |-> HexVal(text[1])]
    ELSE [raised |-> TRUE, v |-> 0]

-----------------------------------------------------------------------------
(* pymodbus3.utilities: bit packing *)

\* one byte from up to eight booleans, least significant bit first
PackByte(bits) ==
    LET w(i) == IF i = 1 THEN 1 ELSE IF i = 2 THEN 2 ELSE IF i = 3 THEN 4
                ELSE IF i = 4 THEN 8 ELSE IF i = 5 THEN 16 ELSE IF i = 6 THEN 32
                ELSE IF i = 7 THEN 64 ELSE 128
        RECURSIVE acc(_)
        acc(i) == IF i > Len(bits) THEN 0
                  ELSE (IF bits[i] THEN w(i) ELSE 0) + acc(i + 1)
    IN  acc(1)

\* the bytes of a bit list, eight bits to a byte, the last byte filled with zeros
pack_bitstring(bits) ==
    [k \in 1..((Len(bits) + 7) \div 8) |-> PackByte(PySlice(bits, 8 * (k - 1), 8 * k))]

UnpackByte(b) ==
    << b % 2 = 1, (b \div 2) % 2 = 1, (b \div 4) % 2 = 1, (b \div 8) % 2 = 1,
       (b \div 16) % 2 = 1, (b \div 32) % 2 = 1, (b \div 64) % 2 = 1, (b \div 128) % 2 = 1 >>

\* the bits of a byte string, eight for every byte
unpack_bitstring(data) ==
    [k \in 1..(8 * Len(data)) |-> UnpackByte(data[((k - 1) \div 8) + 1])[((k - 1) % 8) + 1]]

-----------------------------------------------------------------------------
(* The PDU layer.  A message is a record; cls names its Python class. *)

\* byte_count of a response that was never decoded (Python None)
NoByteCount == -1

ReadBitsRequest(fc, address, count) ==
    [cls |-> "ReadBitsRequest", function_code |-> fc, transaction_id |-> 0,
     protocol_id |-> 0, unit_id |-> 0, address |-> address, count |-> count]

ReadBitsResponse(fc, values) ==
    [cls |-> "ReadBitsResponse", function_code |-> fc, transaction_id |-> 0,
     protocol_id |-> 0, unit_id |-> 0, byte_count |-> NoByteCount, bits |-> values]

\* ExceptionResponse(function_code, exception_code): the function code on the
\* wire is the original one with the high bit set
ExceptionResponse(fc, code) ==
    [cls |-> "ExceptionResponse", function_code |-> ((fc % 128) + 128), transaction_id |-> 0,
     protocol_id |-> 0, unit_id |-> 0, original_code |-> fc, exception_code |-> code]

IllegalFunctionRequest(fc) ==
    [cls |-> "IllegalFunctionRequest", function_code |-> fc, transaction_id |-> 0,
     protocol_id |-> 0, unit_id |-> 0]

\* a message of a class whose source is not part of the model
OtherMessage(fc, data) ==
    [cls |-> "Other", function_code |-> fc, transaction_id |-> 0,
     protocol_id |-> 0, unit_id |-> 0, data |-> data]

\* what a function returns when it returns None or raises
NoMessage == [cls |-> "None"]

\* struct.pack('>B', n) and struct.pack('>H', n): struct.error when n does not
\* fit the field
struct_pack(width, n) ==
    IF n < 0 \/ n >= width THEN [raised |-> TRUE, v |-> <<>>]
    ELSE IF width = 256 THEN [raised |-> FALSE, v |-> << n >>]
    ELSE [raised |-> FALSE, v |-> PackH(n)]

\* ReadBitsResponseBase.encode with the count of bits in place of the count of
\* bytes
ReadBitsResponseBase_encode_bit_count(values) ==
    [raised |-> struct_pack(256, Len(values)).raised,
     v |-> struct_pack(256, Len(values)).v \o pack_bitstring(values)]

\* ReadBitsResponseBase.encode: struct.pack('>B', len(result)) + result
ReadBitsResponseBase_encode(values) ==
    [raised |-> struct_pack(256, Len(pack_bitstring(values))).raised,
     v |-> struct_pack(256, Len(pack_bitstring(values))).v \o pack_bitstring(values)]

\* ReadBitsRequestBase.encode: struct.pack('>HH', self.address, self.count)
ReadBitsRequestBase_encode(address, count) ==
    [raised |-> struct_pack(65536, address).raised \/ struct_pack(65536, count).raised,
     v |-> struct_pack(65536, address).v \o struct_pack(65536, count).v]

\* message.encode(), the payload without the function code: the bytes, and
\* whether struct.error was raised instead
PduEncode(m) ==
    IF m.cls = "ReadBitsRequest" THEN ReadBitsRequestBase_encode(m.address, m.count)
    ELSE IF m.cls = "ReadBitsResponse" THEN ReadBitsResponseBase_encode(m.bits)
    ELSE IF m.cls = "ExceptionResponse" THEN [raised |-> FALSE, v |-> << m.exception_code >>]
    ELSE IF m.cls = "Other" THEN [raised |-> FALSE, v |-> m.data]
    ELSE [raised |-> FALSE, v |-> <<>>]

\* message.encode() of a message whose fields fit, as the framers call it
encode(m) == PduEncode(m).v

-----------------------------------------------------------------------------
(* pymodbus3.factory: the decoders *)

\* the function codes of __function_table (the same for both decoders)
FunctionTable == {1, 2, 3, 4, 5, 6, 7, 8, 11, 12, 15, 16, 17, 20, 21, 22, 23, 24, 43}

\* the function codes whose message classes are modelled field by field
BitReadCodes == {1, 2}

\* ReadBitsRequestBase._rtu_frame_size
ReadBitsRequest_rtu_frame_size == 8

\* ReadBitsResponseBase._rtu_byte_count_pos
ReadBitsResponse_rtu_byte_count_pos == 2

\* ExceptionResponse._rtu_frame_size
ExceptionResponse_rtu_frame_size == 5

\* decoder.lookup_pdu_class(function_code): the class name
lookup_pdu_class(decoder, function_code) ==
    IF function_code \in BitReadCodes
    THEN (IF decoder = "server" THEN "ReadBitsRequest" ELSE "ReadBitsResponse")
    ELSE IF function_code \in FunctionTable THEN "Other"
    ELSE "ExceptionResponse"

\* pdu_class.calculate_rtu_frame_size(buffer): a fixed size, or the byte count
\* at a fixed offset plus offset + 3; IndexError when the buffer is too short
calculate_rtu_frame_size(cls, buffer) ==
    IF cls = "ReadBitsRequest"
    THEN [raised |-> FALSE, v |-> ReadBitsRequest_rtu_frame_size]
    ELSE IF cls = "ReadBitsResponse"
    THEN (IF Len(buffer) <= ReadBitsResponse_rtu_byte_count_pos
          THEN [raised |-> TRUE, v |-> 0]
          ELSE [raised |-> FALSE,
                v |-> buffer[ReadBitsResponse_rtu_byte_count_pos + 1]
                      + ReadBitsResponse_rtu_byte_count_pos + 3])
    ELSE [raised |-> FALSE, v |-> ExceptionResponse_rtu_frame_size]

DecodeRaise(exc) == [status |-> "raise", exc |-> exc, pdu |-> NoMessage]

\* a ServerDecoder that, as the client's does, gives None for a function code
\* that is in no table
ServerDecoder_decode_unknown_none(message) ==
    IF message = <<>> THEN DecodeRaise("IndexError")
    ELSE IF message[1] \in BitReadCodes
    THEN (IF Len(message) # 5 THEN DecodeRaise("struct.error")
          ELSE [status |-> "ok", exc |-> "",
                pdu |-> ReadBitsRequest(message[1], UnpackH(PySlice(message, 1, 3)),
                                        UnpackH(PySlice(message, 3, 5)))])
    ELSE IF message[1] \in FunctionTable
    THEN [status |-> "ok", exc |-> "", pdu |-> OtherMessage(message[1], PyFrom(message, 1))]
    ELSE [status |-> "none", exc |-> "", pdu |-> NoMessage]

\* ServerDecoder.decode: status "ok" with the request, or "raise" when an
\* exception other than ModbusException leaves _helper
ServerDecoder_decode(message) ==
    IF message = <<>> THEN DecodeRaise("IndexError")
    ELSE LET function_code == message[1]
             data == PyFrom(message, 1)
         IN  IF function_code \in BitReadCodes
             THEN (IF Len(data) # 4 THEN DecodeRaise("struct.error")
                   ELSE [status |-> "ok", exc |-> "",
                         pdu |-> ReadBitsRequest(function_code,
                                                 UnpackH(PySlice(data, 0, 2)),
                                                 UnpackH(PySlice(data, 2, 4)))])
             ELSE IF function_code \in FunctionTable
             THEN [status |-> "ok", exc |-> "", pdu |-> OtherMessage(function_code, data)]
             ELSE [status |-> "ok", exc |-> "", pdu |-> IllegalFunctionRequest(function_code)]

\* ClientDecoder.decode: "ok" with the response, "none" when _helper raised
\* ModbusException (unknown response), "raise" for any other exception
ClientDecoder_decode(message) ==
    IF message = <<>> THEN DecodeRaise("IndexError")
    ELSE LET function_code == message[1]
             data == PyFrom(message, 1)
         IN  IF function_code > 128
             THEN (IF data = <<>> THEN DecodeRaise("IndexError")
                   ELSE [status |-> "ok", exc |-> "",
                         pdu |-> ExceptionResponse(function_code % 128, data[1])])
             ELSE IF function_code \in BitReadCodes
             THEN (IF data = <<>> THEN DecodeRaise("IndexError")
                   ELSE [status |-> "ok", exc |-> "",
                         pdu |-> [ReadBitsResponse(function_code,
                                                   unpack_bitstring(Tail(data)))
                                  EXCEPT !.byte_count = data[1]]])
             ELSE IF function_code \in FunctionTable
             THEN [status |-> "ok", exc |-> "", pdu |-> OtherMessage(function_code, data)]
             ELSE [status |-> "none", exc |-> "", pdu |-> NoMessage]

decode(decoder, message) ==
    IF decoder = "server" THEN ServerDecoder_decode(message)
    ELSE ClientDecoder_decode(message)

-----------------------------------------------------------------------------
(* pymodbus3.transaction: the framers.  A framer is the record               *)
(* [kind, decoder, buffer, header]; a method that changes it returns the     *)
(* changed framer beside its result.                                         *)

SocketHeader == [tid |-> 0, pid |-> 0, len |-> 0, uid |-> 0]

\* the str '0000' the serial headers start with, and a parsed integer
LrcInit == [t |-> "str", v |-> 0]

LrcInt(n) == [t |-> "int", v |-> n]

RtuHeader == [lrc |-> LrcInit, len |-> 0, uid |-> 0]

AsciiHeader == [lrc |-> LrcInit, len |-> 0, uid |-> 0]

\* the Binary framer stores struct.unpack('>B', ...) itself, a 1-tuple, as uid
BinaryHeader == [crc |-> 0, len |-> 0, uid |-> [t |-> "int", v |-> 0]]

ModbusSocketFramer(decoder) ==
    [kind |-> "tcp", decoder |-> decoder, buffer |-> <<>>, header |-> SocketHeader]

ModbusRtuFramer(decoder) ==
    [kind |-> "rtu", decoder |-> decoder, buffer |-> <<>>, header |-> RtuHeader]

ModbusAsciiFramer(decoder) ==
    [kind |-> "ascii", decoder |-> decoder, buffer |-> <<>>, header |-> AsciiHeader]

ModbusBinaryFramer(decoder) ==
    [kind |-> "binary", decoder |-> decoder, buffer |-> <<>>, header |-> BinaryHeader]

NewFramer(kind, decoder) ==
    IF kind = "tcp" THEN ModbusSocketFramer(decoder)
    ELSE IF kind = "rtu" THEN ModbusRtuFramer(decoder)
    ELSE IF kind = "ascii" THEN ModbusAsciiFramer(decoder)
    ELSE ModbusBinaryFramer(decoder)

header_size(f) ==
    IF f.kind = "tcp" THEN 7 ELSE IF f.kind = "rtu" THEN 1 ELSE 2

AsciiStart == << 58 >>

AsciiEnd == << 13, 10 >>

BinaryStart == << 123 >>

BinaryEnd == << 125 >>

\* ModbusBinaryFramer.__repeat
BinaryRepeat == {125, 123}

\* the result of a method returning a boolean: ret, the framer afterwards, and
\* the exception that left the method instead
Ret(ret, f) == [ret |-> ret, exc |-> "", framer |-> f]

\* exc names the exception; "" means the method returned
Raise(f, exc) == [ret |-> FALSE, exc |-> exc, framer |-> f]

add_to_frame(f, message) == [f EXCEPT !.buffer = @ \o message]

is_frame_ready(f) == Len(f.buffer) > header_size(f)

(* ModbusSocketFramer *)

\* a frame size that counts the unit id byte of the header a second time
SocketFramer_get_frame_size_with_uid(f) == header_size(f) + f.header.len

SocketFramer_get_frame_size(f) ==
    header_size(f) + (IF f.header.len - 1 > 0 THEN f.header.len - 1 ELSE 0)

SocketFramer_advance_frame(f) ==
    [f EXCEPT !.buffer = PyFrom(f.buffer, SocketFramer_get_frame_size(f)),
              !.header = SocketHeader]

SocketFramer_reset_frame(f) == SocketFramer_advance_frame(f)

\* check_frame with the length test off by one: the frame counts as complete
\* only when a byte beyond it is buffered
SocketFramer_check_frame_off_by_one(f) ==
    IF Len(f.buffer) >= header_size(f)
    THEN LET h == [tid |-> UnpackH(PySlice(f.buffer, 0, 2)),
                   pid |-> UnpackH(PySlice(f.buffer, 2, 4)),
                   len |-> UnpackH(PySlice(f.buffer, 4, 6)),
                   uid |-> f.buffer[7]]
             g == [f EXCEPT !.header = h]
         IN  IF h.len < 2 THEN Ret(FALSE, SocketFramer_advance_frame(g))
             ELSE IF Len(f.buffer) - header_size(f) >= h.len THEN Ret(TRUE, g)
             ELSE Ret(FALSE, g)
    ELSE Ret(FALSE, f)

SocketFramer_check_frame(f) ==
    IF Len(f.buffer) >= header_size(f)
    THEN LET h == [tid |-> UnpackH(PySlice(f.buffer, 0, 2)),
                   pid |-> UnpackH(PySlice(f.buffer, 2, 4)),
                   len |-> UnpackH(PySlice(f.buffer, 4, 6)),
                   uid |-> f.buffer[7]]
             g == [f EXCEPT !.header = h]
         IN  IF h.len < 2 THEN Ret(FALSE, SocketFramer_advance_frame(g))
             ELSE IF Len(f.buffer) - header_size(f) + 1 >= h.len THEN Ret(TRUE, g)
             ELSE Ret(FALSE, g)
    ELSE Ret(FALSE, f)

SocketFramer_get_frame(f) ==
    PySlice(f.buffer, header_size(f), SocketFramer_get_frame_size(f))

SocketFramer_populate_result(f, result) ==
    [result EXCEPT !.transaction_id = f.header.tid,
                   !.protocol_id = f.header.pid,
                   !.unit_id = f.header.uid]

SocketFramer_build_packet(message) ==
    LET data == encode(message)
    IN  PackH(message.transaction_id) \o PackH(message.protocol_id)
        \o PackH(Len(data) + 2) \o << message.unit_id, message.function_code >> \o data

(* ModbusRtuFramer *)

\* populate_header: uid is stored before the function code is read, so a
\* one-byte buffer leaves uid set when IndexError is raised
RtuFramer_populate_header(f) ==
    IF Len(f.buffer) < 1 THEN Raise(f, "IndexError")
    ELSE LET g == [f EXCEPT !.header.uid = f.buffer[1]]
         IN  IF Len(f.buffer) < 2 THEN Raise(g, "IndexError")
             ELSE LET pdu_class == lookup_pdu_class(f.decoder, f.buffer[2])
                      size == calculate_rtu_frame_size(pdu_class, f.buffer)
                  IN  IF size.raised THEN Raise(g, "IndexError")
                      ELSE Ret(TRUE,
                               [g EXCEPT !.header =
                                    [lrc |-> g.header.lrc, len |-> size.v, uid |-> g.header.uid,
                                     crc |-> PySlice(f.buffer, size.v - 2, size.v)]])

\* check_frame catches the IndexError of a short buffer and returns False
RtuFramer_check_frame(f) ==
    LET p == RtuFramer_populate_header(f)
    IN  IF p.exc # "" THEN Ret(FALSE, p.framer)
        ELSE LET frame_size == p.framer.header.len
                 data == PySlice(f.buffer, 0, frame_size - 2)
                 crc == PySlice(f.buffer, frame_size - 2, frame_size)
             IN  IF Len(crc) < 2 THEN Ret(FALSE, p.framer)
                 ELSE Ret(check_crc(data, crc[1] * 256 + crc[2]), p.framer)

RtuFramer_advance_frame(f) ==
    [f EXCEPT !.buffer = PyFrom(f.buffer, f.header.len), !.header = RtuHeader]

RtuFramer_reset_frame(f) == [f EXCEPT !.buffer = <<>>, !.header = RtuHeader]

SerialFramer_get_frame_size(f) ==
    LET size == f.header.len
    IN  IF size # 0 THEN size ELSE Len(f.buffer) + 1

\* get_frame without its test of the end offset: the bare slice
RtuFramer_get_frame_bare_slice(f) ==
    PySlice(f.buffer, header_size(f), f.header.len - 2)

RtuFramer_get_frame(f) ==
    LET start == header_size(f)
        end == f.header.len - 2
    IN  IF end > 0 THEN PySlice(f.buffer, start, end) ELSE <<>>

RtuFramer_populate_result(f, result) == [result EXCEPT !.unit_id = f.header.uid]

RtuFramer_build_packet(message) ==
    LET packet == << message.unit_id, message.function_code >> \o encode(message)
    IN  packet \o PackH(compute_crc(packet))

(* ModbusAsciiFramer *)

\* check_frame: int() raises ValueError and a2b_hex raises binascii.Error on
\* text that is not hexadecimal; neither is caught
AsciiFramer_check_frame(f) ==
    LET start == Find(f.buffer, AsciiStart)
    IN  IF start = -1 THEN Ret(FALSE, f)
        ELSE LET buffer == IF start > 0 THEN PyFrom(f.buffer, start) ELSE f.buffer
                 g == [f EXCEPT !.buffer = buffer]
                 end == Find(buffer, AsciiEnd)
             IN  IF end = -1 THEN Ret(FALSE, g)
                 ELSE LET g1 == [g EXCEPT !.header.len = end]
                          uid == int16(PySlice(buffer, 1, 3))
                          g2 == [g1 EXCEPT !.header.uid = uid.v]
                          lrc == int16(PySlice(buffer, end - 2, end))
                          g3 == [g2 EXCEPT !.header.lrc = LrcInt(lrc.v)]
                          data == a2b_hex(PySlice(buffer, 1, end - 2))
                      IN  IF uid.raised THEN Raise(g1, "ValueError")
                          ELSE IF lrc.raised THEN Raise(g2, "ValueError")
                          ELSE IF data.raised THEN Raise(g3, "binascii.Error")
                          ELSE Ret(check_lrc(data.v, lrc.v), g3)

AsciiFramer_advance_frame(f) ==
    [f EXCEPT !.buffer = PyFrom(f.buffer, f.header.len + 2), !.header = AsciiHeader]

AsciiFramer_reset_frame(f) == AsciiFramer_advance_frame(f)

\* get_frame: a2b_hex of the text between the uid and the LRC
AsciiFramer_get_frame(f) ==
    LET start == header_size(f) + 1
        end == f.header.len - 2
        data == a2b_hex(PySlice(f.buffer, start, end))
    IN  IF end > 0 THEN data ELSE [raised |-> FALSE, v |-> <<>>]

AsciiFramer_populate_result(f, result) == [result EXCEPT !.unit_id = f.header.uid]

AsciiFramer_build_packet(message) ==
    LET encoded == encode(message)
        data == << message.unit_id, message.function_code >>
        checksum == compute_lrc(encoded \o data)
    IN  UpperAll(AsciiStart \o b2a_hex(data) \o b2a_hex(encoded)
                 \o b2a_hex(<< checksum >>) \o AsciiEnd)

(* ModbusBinaryFramer *)

\* check_frame: start keeps the offset found before the leading bytes were
\* dropped; struct.unpack raises struct.error unless the CRC slice has two bytes
BinaryFramer_check_frame(f) ==
    LET start == Find(f.buffer, BinaryStart)
    IN  IF start = -1 THEN Ret(FALSE, f)
        ELSE LET buffer == IF start > 0 THEN PyFrom(f.buffer, start) ELSE f.buffer
                 g == [f EXCEPT !.buffer = buffer]
                 end == Find(buffer, BinaryEnd)
             IN  IF end = -1 THEN Ret(FALSE, g)
                 ELSE LET uid == PySlice(buffer, 1, 2)
                          g1 == [g EXCEPT !.header.len = end]
                          g2 == [g1 EXCEPT !.header.uid = [t |-> "tuple", v |-> uid[1]]]
                          crc == PySlice(buffer, end - 2, end)
                          g3 == [g2 EXCEPT !.header.crc = UnpackH(crc)]
                          data == PySlice(buffer, start + 1, end - 2)
                      IN  IF Len(uid) # 1 THEN Raise(g1, "struct.error")
                          ELSE IF Len(crc) # 2 THEN Raise(g2, "struct.error")
                          ELSE Ret(check_crc(data, UnpackH(crc)), g3)

BinaryFramer_advance_frame(f) ==
    [f EXCEPT !.buffer = PyFrom(f.buffer, f.header.len + 2), !.header = BinaryHeader]

BinaryFramer_reset_frame(f) == BinaryFramer_advance_frame(f)

BinaryFramer_get_frame(f) ==
    LET start == header_size(f) + 1
        end == f.header.len - 2
    IN  IF end > 0 THEN PySlice(f.buffer, start, end) ELSE <<>>

BinaryFramer_populate_result(f, result) == [result EXCEPT !.unit_id = f.header.uid]

\* _preflight: every byte equal to a delimiter is written twice
RECURSIVE BinaryFramer_preflight(_)
BinaryFramer_preflight(data) ==
    IF data = <<>> THEN <<>>
    ELSE (IF Head(data) \in BinaryRepeat THEN << Head(data), Head(data) >> ELSE << Head(data) >>)
         \o BinaryFramer_preflight(Tail(data))

BinaryFramer_build_packet(message) ==
    LET data == BinaryFramer_preflight(encode(message))
        packet == << message.unit_id, message.function_code >> \o data
    IN  BinaryStart \o packet \o PackH(compute_crc(packet)) \o BinaryEnd

(* the methods, dispatched on the framer's class *)

check_frame(f) ==
    IF f.kind = "tcp" THEN SocketFramer_check_frame(f)
    ELSE IF f.kind = "rtu" THEN RtuFramer_check_frame(f)
    ELSE IF f.kind = "ascii" THEN AsciiFramer_check_frame(f)
    ELSE BinaryFramer_check_frame(f)

advance_frame(f) ==
    IF f.kind = "tcp" THEN SocketFramer_advance_frame(f)
    ELSE IF f.kind = "rtu" THEN RtuFramer_advance_frame(f)
    ELSE IF f.kind = "ascii" THEN AsciiFramer_advance_frame(f)
    ELSE BinaryFramer_advance_frame(f)

reset_frame(f) ==
    IF f.kind = "tcp" THEN SocketFramer_reset_frame(f)
    ELSE IF f.kind = "rtu" THEN RtuFramer_reset_frame(f)
    ELSE IF f.kind = "ascii" THEN AsciiFramer_reset_frame(f)
    ELSE BinaryFramer_reset_frame(f)

get_frame_size(f) ==
    IF f.kind = "tcp" THEN SocketFramer_get_frame_size(f)
    ELSE SerialFramer_get_frame_size(f)

\* get_frame: [raised, v]; only the ASCII framer's a2b_hex can raise
get_frame(f) ==
    IF f.kind = "tcp" THEN [raised |-> FALSE, v |-> SocketFramer_get_frame(f)]
    ELSE IF f.kind = "rtu" THEN [raised |-> FALSE, v |-> RtuFramer_get_frame(f)]
    ELSE IF f.kind = "ascii" THEN AsciiFramer_get_frame(f)
    ELSE [raised |-> FALSE, v |-> BinaryFramer_get_frame(f)]

populate_result(f, result) ==
    IF f.kind = "tcp" THEN SocketFramer_populate_result(f, result)
    ELSE IF f.kind = "rtu" THEN RtuFramer_populate_result(f, result)
    ELSE IF f.kind = "ascii" THEN AsciiFramer_populate_result(f, result)
    ELSE BinaryFramer_populate_result(f, result)

build_packet(f, message) ==
    IF f.kind = "tcp" THEN SocketFramer_build_packet(message)
    ELSE IF f.kind = "rtu" THEN RtuFramer_build_packet(message)
    ELSE IF f.kind = "ascii" THEN AsciiFramer_build_packet(message)
    ELSE BinaryFramer_build_packet(message)

(* IModbusFramer.process_incoming_packet *)

\* The loop of process_incoming_packet, one operator per stage of its body: out
\* collects the results passed to callback, in order, and beside each the
\* buffer as it is when callback is invoked; exc is the exception that ended
\* the loop ("" when it ended by itself).  c is what check_frame returned.
RECURSIVE process_loop(_, _)

NoCalls == [results |-> <<>>, seen |-> <<>>]

\* callback(result), invoked when the framer is f
callback(out, f, result) ==
    [results |-> Append(out.results, result), seen |-> Append(out.seen, f.buffer)]

\* the loop is left with the framer f
Left(f, out, exc) ==
    [framer |-> f, results |-> out.results, seen |-> out.seen, exc |-> exc]

\* the stage after decode, with an if in place of the while: it returns after
\* the first frame
process_decoded_once(c, result, out) ==
    IF result.status = "raise" THEN Left(c.framer, out, result.exc)
    ELSE IF result.status = "none" THEN Left(c.framer, out, "ModbusIOException")
    ELSE Left(advance_frame(c.framer),
              callback(out, advance_frame(c.framer), populate_result(c.framer, result.pdu)),
              "")

\* the stage after decode if a frame that decodes to None were dropped from
\* the buffer before the exception is raised
process_decoded_dropping(c, result, out) ==
    IF result.status = "raise" THEN Left(c.framer, out, result.exc)
    ELSE IF result.status = "none"
         THEN Left(advance_frame(c.framer), out, "ModbusIOException")
    ELSE process_loop(advance_frame(c.framer),
                      callback(out, advance_frame(c.framer),
                               populate_result(c.framer, result.pdu)))

\* result is None: raise; otherwise populate_result, advance_frame, callback
\* and back to the loop test
process_decoded(c, result, out) ==
    IF result.status = "raise" THEN Left(c.framer, out, result.exc)
    ELSE IF result.status = "none" THEN Left(c.framer, out, "ModbusIOException")
    ELSE process_loop(advance_frame(c.framer),
                      callback(out, advance_frame(c.framer),
                               populate_result(c.framer, result.pdu)))

\* result = self.decoder.decode(self.get_frame())
process_frame(c, frame, out) ==
    IF frame.raised THEN Left(c.framer, out, "binascii.Error")
    ELSE process_decoded(c, decode(c.framer.decoder, frame.v), out)

\* if self.check_frame(): ... else: break
process_checked(c, out) ==
    IF c.exc # "" THEN Left(c.framer, out, c.exc)
    ELSE IF ~c.ret THEN Left(c.framer, out, "")
    ELSE process_frame(c, get_frame(c.framer), out)

\* while self.is_frame_ready()
process_loop(f, out) ==
    IF ~is_frame_ready(f) THEN Left(f, out, "")
    ELSE process_checked(check_frame(f), out)

process_incoming_packet(f, data) ==
    process_loop(IF data # <<>> THEN add_to_frame(f, data) ELSE f, NoCalls)
-----------------------------------------------------------------------------
(* pymodbus3.transaction: the transaction managers.  A keyed table is a      *)
(* function from tids to entries, a FIFO table a sequence of entries; an     *)
(* entry is a record, and Python's None is NoMessage.                        *)

\* tid=None, the default of add_transaction's second parameter
NoTid == -1

\* a twisted Deferred, the i-th one handed out
Deferred(i) == [cls |-> "Deferred", id |-> i]

\* Failure(ConnectionException(...))
ConnectionFailure == [cls |-> "Failure", value |-> "ConnectionException"]

\* dict() and list()
NewTable == <<>>

\* table[k] = v
PutKey(table, k, v) == [x \in DOMAIN table \cup {k} |-> IF x = k THEN v ELSE table[x]]

\* table without key k
DropKey(table, k) ==
    IF DOMAIN table \ {k} = {} THEN NewTable
    ELSE [x \in DOMAIN table \ {k} |-> table[x]]

\* get_next_tid without the mask: self.tid = self.tid + 1
get_next_tid_unmasked(t) == t + 1

\* self.tid = (self.tid + 1) & 0xffff; return self.tid
get_next_tid(t) == (t + 1) % 65536

\* reset that empties the table and leaves the counter where it is
reset_table_only(table, t) == [tid |-> t, transactions |-> NewTable]

\* self.tid = Defaults.TransactionId; self.transactions = type(self.transactions)()
reset(table, t) == [tid |-> 0, transactions |-> NewTable]

\* add_transaction that leaves an entry already stored under the tid alone
DictManager_add_transaction_keep_first(table, request, t) ==
    IF (IF t = NoTid THEN request.transaction_id ELSE t) \in DOMAIN table THEN table
    ELSE PutKey(table, IF t = NoTid THEN request.transaction_id ELSE t, request)

DictManager_add_transaction(table, request, t) ==
    PutKey(table, IF t = NoTid THEN request.transaction_id ELSE t, request)

\* get_transaction that looks the entry up and leaves it in the table
DictManager_get_transaction_keep(table, t) ==
    [ret |-> IF t \in DOMAIN table THEN table[t] ELSE NoMessage,
     transactions |-> table]

\* self.transactions.pop(tid, None)
DictManager_get_transaction(table, t) ==
    [ret |-> IF t \in DOMAIN table THEN table[t] ELSE NoMessage,
     transactions |-> DropKey(table, t)]

\* del_transaction that empties the table: self.transactions.clear()
DictManager_del_transaction_clear(table, t) == NewTable

\* self.transactions.pop(tid, None)
DictManager_del_transaction(table, t) == DropKey(table, t)

FifoManager_add_transaction(table, request, t) == Append(table, request)

\* get_transaction that takes the newest entry: self.transactions.pop()
FifoManager_get_transaction_newest(table, t) ==
    IF table # <<>>
    THEN [ret |-> table[Len(table)], transactions |-> SubSeq(table, 1, Len(table) - 1)]
    ELSE [ret |-> NoMessage, transactions |-> table]

\* self.transactions.pop(0) if self.transactions else None
FifoManager_get_transaction(table, t) ==
    IF table # <<>> THEN [ret |-> Head(table), transactions |-> Tail(table)]
    ELSE [ret |-> NoMessage, transactions |-> table]

FifoManager_del_transaction(table, t) == IF table # <<>> THEN Tail(table) ELSE table

add_transaction(m, table, request, t) ==
    IF m = "dict" THEN DictManager_add_transaction(table, request, t)
    ELSE FifoManager_add_transaction(table, request, t)

get_transaction(m, table, t) ==
    IF m = "dict" THEN DictManager_get_transaction(table, t)
    ELSE FifoManager_get_transaction(table, t)

del_transaction(m, table, t) ==
    IF m = "dict" THEN DictManager_del_transaction(table, t)
    ELSE FifoManager_del_transaction(table, t)

\* list(manager): the keyed manager's __iter__ returns the dict's key view,
\* which is no iterator, so iter() raises TypeError; the FIFO manager's returns
\* iter(list) and list() copies the entries
Manager_list(m, table) ==
    IF m = "dict" THEN [raised |-> TRUE, v |-> <<>>]
    ELSE [raised |-> FALSE, v |-> table]

\* a manager chosen as if every framer were serial
ManagerFor_fifo(kind) == "fifo"

\* the manager a client builds for its framer: keyed for ModbusSocketFramer,
\* FIFO for every other
ManagerFor(kind) == IF kind = "tcp" THEN "dict" ELSE "fifo"

\* the ids of the entries a table holds
PendingIds(table) == { table[k].id : k \in DOMAIN table }

-----------------------------------------------------------------------------
(* Values the scenarios draw their inputs from *)

FunctionCodes == {1, 2}

Addresses == {0, 123, 5001}

Counts == {1, 125}

UnitIds == {1, 247}

TransactionIds == {1, 4660}

ProtocolIds == {0, 4660}

FramerKinds == {"tcp", "rtu", "ascii", "binary"}

\* the read-bits requests offered to build_packet
Requests ==
    { [ReadBitsRequest(fc, a, c) EXCEPT !.unit_id = u, !.transaction_id = t, !.protocol_id = p] :
        fc \in FunctionCodes, a \in Addresses, c \in Counts, u \in UnitIds,
        t \in TransactionIds, p \in ProtocolIds }

\* the bit lists of the responses: whole bytes, one and two of them
BitLists == { UnpackByte(0), UnpackByte(205), UnpackByte(1) \o UnpackByte(128) }

ExceptionCodes == {1, 4}

\* the responses offered to build_packet: read-bits and exception responses
BareResponses ==
    { ReadBitsResponse(fc, bits) : fc \in FunctionCodes, bits \in BitLists }
    \cup { ExceptionResponse(fc, code) : fc \in FunctionCodes, code \in ExceptionCodes }

Responses ==
    { [r EXCEPT !.unit_id = u, !.transaction_id = t, !.protocol_id = p] :
        r \in BareResponses, u \in UnitIds, t \in TransactionIds, p \in ProtocolIds }

\* the messages a decoder is able to give back
Messages(decoder) == IF decoder = "server" THEN Requests ELSE Responses

Decoders == {"server", "client"}

\* the variables of each scenario
streamVars == <<pdu, stream, pos, marks>>

tableVars == <<transactions, tid, manager>>

asyncVars == <<connected, transport, handles, written, wire>>

syncVars == <<client, sync>>

serverVars == <<server, store>>

\* the values the variables a scenario does not use are held at
FramerIdle == framer = [kind |-> "none"]

StreamIdle == /\ pdu = NoMessage /\ stream = <<>> /\ pos = 0 /\ marks = <<>>

TableIdle == /\ transactions = NewTable /\ tid = 0 /\ manager = "none"

AsyncIdle ==
    /\ connected = FALSE /\ transport = "none" /\ handles = <<>> /\ written = <<>>
    /\ wire = <<>>

SyncIdle == /\ client = [op |-> "none"] /\ sync = [pc |-> "none"]

ServerIdle == /\ server = [protocol |-> "none"] /\ store = [kind |-> "none"]

\* a response that went through decode has its byte_count set
Decoded(m) ==
    IF m.cls = "ReadBitsResponse"
    THEN [m EXCEPT !.byte_count = Len(pack_bitstring(m.bits))]
    ELSE m

\* what decode and populate_result give back for a message that was framed:
\* every field for TCP; the serial framers carry no transaction or protocol id
Restored(kind, m) ==
    IF kind = "tcp" THEN Decoded(m)
    ELSE [Decoded(m) EXCEPT !.transaction_id = 0, !.protocol_id = 0]

-----------------------------------------------------------------------------
(* Scenario: one packet from build_packet is fed to a fresh framer one byte  *)
(* at a time through add_to_frame, check_frame is called after every byte,   *)
(* and once the packet is complete get_frame, decode and populate_result.    *)

FeedInit ==
    /\ \E kind \in FramerKinds, decoder \in Decoders :
          \E m \in Messages(decoder) :
             /\ framer = NewFramer(kind, decoder)
             /\ pdu = m
             /\ stream = build_packet(NewFramer(kind, decoder), m)
    /\ pos = 0
    /\ marks = <<>>
    /\ delivered = <<>>
    /\ last = [op |-> "none"]
    /\ raised = ""
    /\ TableIdle /\ AsyncIdle /\ SyncIdle /\ ServerIdle

\* the state after check_frame returned c on the buffer added
FeedChecked(added, c) ==
    /\ framer' = c.framer
    /\ last' = [op |-> "check_frame", ret |-> c.ret, exc |-> c.exc,
                kept |-> (c.framer.buffer = added.buffer)]

\* add_to_frame(one byte); check_frame()
FeedByte ==
    /\ pos < Len(stream)
    /\ last.op \in {"none", "check_frame", "short_get_frame"}
    /\ FeedChecked(add_to_frame(framer, << stream[pos + 1] >>),
                   check_frame(add_to_frame(framer, << stream[pos + 1] >>)))
    /\ pos' = pos + 1
    /\ UNCHANGED <<pdu, stream, marks, delivered, raised, tableVars, asyncVars, syncVars, serverVars>>

\* the state after get_frame returned frame and decode returned result
FeedDecoded(frame, result) ==
    delivered' = << [checked |-> last.ret,
                     frame |-> frame.v,
                     status |-> result.status,
                     result |-> IF result.status = "ok"
                                THEN populate_result(framer, result.pdu)
                                ELSE NoMessage] >>

\* get_frame(); decoder.decode(frame); populate_result(result)
FeedGetFrame ==
    /\ pos = Len(stream)
    /\ last.op = "check_frame"
    /\ FeedDecoded(get_frame(framer), decode(framer.decoder, get_frame(framer).v))
    /\ last' = [op |-> "get_frame"]
    /\ UNCHANGED <<framer, pdu, stream, pos, marks, raised, tableVars, asyncVars, syncVars, serverVars>>

\* the state after get_frame returned frame on the short buffer of added
FeedShort(added, frame) ==
    /\ framer' = added
    /\ last' = [op |-> "short_get_frame", frame |-> frame.v, raised |-> frame.raised,
                end |-> added.header.len - 2]

\* RTU: add_to_frame(the next n bytes, not the last of the packet); get_frame()
FeedShortGetFrame ==
    /\ framer.kind = "rtu"
    /\ last.op \in {"none", "check_frame"}
    /\ \E n \in 0..(Len(stream) - pos - 1) :
          /\ FeedShort(add_to_frame(framer, SubSeq(stream, pos + 1, pos + n)),
                       get_frame(add_to_frame(framer, SubSeq(stream, pos + 1, pos + n))))
          /\ pos' = pos + n
    /\ UNCHANGED <<pdu, stream, marks, delivered, raised, tableVars, asyncVars, syncVars, serverVars>>

FeedNext == FeedByte \/ FeedGetFrame \/ FeedShortGetFrame

SpecFeed == FeedInit /\ [][FeedNext]_vars

FeedExpected == Restored(framer.kind, pdu)

\* C8: for the TCP, RTU and ASCII framers and any request or response P, feeding
\* build_packet(P) byte by byte, check_frame returns False after every proper
\* prefix and keeps every byte, returns True when the last byte is in, get_frame
\* then returns function code + payload, and decode + populate_result give P
\* back with its header fields (tid/pid/uid for TCP, uid for RTU and ASCII).
C8_ByteFeedRoundTrip ==
    framer.kind \in {"tcp", "rtu", "ascii"} =>
        /\ (last.op = "check_frame" /\ pos < Len(stream)) =>
              /\ ~last.ret /\ last.exc = "" /\ last.kept
              /\ framer.buffer = SubSeq(stream, 1, pos)
        /\ (last.op = "check_frame" /\ pos = Len(stream)) =>
              /\ last.ret /\ last.exc = ""
              /\ framer.buffer = stream
        /\ last.op = "get_frame" =>
              /\ delivered[1].checked
              /\ delivered[1].frame = << pdu.function_code >> \o encode(pdu)
              /\ delivered[1].status = "ok"
              /\ delivered[1].result = FeedExpected

\* C8 witness: an ASCII packet fed whole, its frame taken and decoded
C8_Witness ==
    /\ framer.kind = "ascii" /\ last.op = "get_frame" /\ pos = Len(stream)
    /\ delivered[1].result.unit_id = 247

\* C9: for the Binary framer and any request or response P, payload bytes 0x7B
\* and 0x7D included, ingesting build_packet(P) gives check_frame True, a frame
\* equal to P's function code + its un-doubled payload, and unit_id the integer uid.
C9_BinaryRoundTrip ==
    (framer.kind = "binary" /\ last.op = "get_frame") =>
        /\ delivered[1].checked
        /\ delivered[1].frame = << pdu.function_code >> \o encode(pdu)
        /\ delivered[1].status = "ok"
        /\ delivered[1].result.unit_id = [t |-> "int", v |-> pdu.unit_id]

\* C35: RTU framer with a buffer shorter than a full frame: check_frame
\* returns False, get_frame returns an empty frame whenever the end offset it
\* computes (header len minus 2) is not positive, neither call removes or
\* alters a buffered byte, and the frame validates once its remaining bytes
\* have arrived.
C35_RtuShortBuffer ==
    framer.kind = "rtu" =>
        /\ (last.op = "check_frame" /\ pos < Len(stream)) =>
              /\ ~last.ret /\ last.exc = "" /\ last.kept
              /\ framer.buffer = SubSeq(stream, 1, pos)
        /\ last.op = "short_get_frame" =>
              /\ ~last.raised
              /\ last.end <= 0 => last.frame = <<>>
              /\ framer.buffer = SubSeq(stream, 1, pos)
        /\ (last.op = "check_frame" /\ pos = Len(stream)) =>
              /\ last.ret /\ last.exc = ""
              /\ framer.buffer = stream
        /\ last.op = "get_frame" =>
              /\ delivered[1].checked
              /\ delivered[1].frame = << pdu.function_code >> \o encode(pdu)

\* C35 witness: get_frame was called on the first bytes of a packet, four or
\* more of them, before any check_frame had set the header's len, and
\* returned the empty frame
C35_Witness ==
    /\ framer.kind = "rtu" /\ last.op = "short_get_frame"
    /\ last.end <= 0 /\ last.frame = <<>>
    /\ Len(framer.buffer) >= 4 /\ pos < Len(stream)

-----------------------------------------------------------------------------
(* Scenario: up to MaxFrames packets from build_packet are written back to   *)
(* back into one byte stream, and the stream is handed to                    *)
(* process_incoming_packet in chunks of 1..MaxChunk bytes.                   *)

MaxFrames == 3

MaxChunk == 22

StreamKinds == FramerKinds

\* the messages the stream's frames are built from
StreamMessages(decoder) ==
    IF decoder = "server"
    THEN { [ReadBitsRequest(1, 0, 1) EXCEPT !.unit_id = 1, !.transaction_id = 1],
           [ReadBitsRequest(2, 5001, 125) EXCEPT !.unit_id = 247, !.transaction_id = 4660,
                                                 !.protocol_id = 4660] }
    ELSE { [ReadBitsResponse(1, UnpackByte(1) \o UnpackByte(128))
                EXCEPT !.unit_id = 1, !.transaction_id = 1],
           [ExceptionResponse(2, 4) EXCEPT !.unit_id = 247, !.transaction_id = 4660] }

SeqsUpTo(S, n) == UNION { [1..k -> S] : k \in 1..n }

\* the end offset of every frame of the stream, with the message it carries
RECURSIVE FrameMarks(_, _, _)
FrameMarks(f, msgs, from) ==
    IF msgs = <<>> THEN <<>>
    ELSE << [end |-> from + Len(build_packet(f, Head(msgs))), pdu |-> Head(msgs)] >>
         \o FrameMarks(f, Tail(msgs), from + Len(build_packet(f, Head(msgs))))

StreamInit ==
    /\ \E kind \in StreamKinds, decoder \in Decoders :
          \E msgs \in SeqsUpTo(StreamMessages(decoder), MaxFrames) :
             /\ framer = NewFramer(kind, decoder)
             /\ stream = Concat([i \in 1..Len(msgs) |->
                                   build_packet(NewFramer(kind, decoder), msgs[i])])
             /\ marks = FrameMarks(NewFramer(kind, decoder), msgs, 0)
    /\ pdu = NoMessage
    /\ pos = 0
    /\ delivered = <<>>
    /\ last = [op |-> "none"]
    /\ raised = ""
    /\ TableIdle /\ AsyncIdle /\ SyncIdle /\ ServerIdle

\* the state after a process_incoming_packet call that returned r
StreamProcessed(r) ==
    /\ framer' = r.framer
    /\ delivered' = delivered \o r.results
    /\ last' = [op |-> "process_incoming_packet", exc |-> r.exc, called |-> Len(r.results),
                seen |-> r.seen]

\* process_incoming_packet(the next n bytes, callback); callback appends to delivered
StreamChunk ==
    /\ pos < Len(stream)
    /\ \E n \in 1..MaxChunk :
          /\ pos + n <= Len(stream)
          /\ StreamProcessed(process_incoming_packet(framer, SubSeq(stream, pos + 1, pos + n)))
          /\ pos' = pos + n
    /\ UNCHANGED <<pdu, stream, marks, raised, tableVars, asyncVars, syncVars, serverVars>>

StreamNext == StreamChunk

SpecStream == StreamInit /\ [][StreamNext]_vars

\* how many frames of the stream end at or before offset p
FramesEndedBy(p) == Cardinality({ i \in 1..Len(marks) : marks[i].end <= p })

\* C10: for the TCP, RTU and ASCII framers and a stream of k valid frames back to
\* back, in any chunking, the callback has been invoked once for every frame whose
\* last byte has been supplied and for no other, in stream order, and no call
\* raises.  As this holds before and after every call, each invocation is made by
\* the call that supplied its frame's last byte, and after the whole stream the
\* callback has been invoked exactly k times.
C10_CallbackPerFrame ==
    framer.kind \in {"tcp", "rtu", "ascii"} =>
        /\ Len(delivered) = FramesEndedBy(pos)
        /\ \A i \in 1..Len(delivered) : delivered[i] = Restored(framer.kind, marks[i].pdu)
        /\ last.op = "process_incoming_packet" => last.exc = ""

\* C10 witness: three RTU frames all supplied, the last call completing two of them
C10_Witness ==
    /\ framer.kind = "rtu" /\ Len(marks) = 3 /\ pos = Len(stream)
    /\ Len(delivered) = 3 /\ last.op = "process_incoming_packet" /\ last.called = 2

\* the frame of the stream the j-th callback of the last call was made for:
\* callbacks are made in stream order
FrameOfCall(j) == Len(delivered) - last.called + j

\* C11: for every framer (TCP, RTU, ASCII, Binary), when process_incoming_packet
\* invokes the callback for a frame, exactly that frame's bytes have been removed
\* from the head of the buffer: the buffer holds the bytes supplied after the
\* frame's last byte, all of them and nothing before them.
C11_DeliveredFrameRemoved ==
    last.op = "process_incoming_packet" =>
        \A j \in 1..last.called :
            /\ FrameOfCall(j) \in DOMAIN marks
            /\ last.seen[j] = SubSeq(stream, marks[FrameOfCall(j)].end + 1, pos)

\* C11 for the framers other than Binary
C11_ExceptBinary == framer.kind # "binary" => C11_DeliveredFrameRemoved

-----------------------------------------------------------------------------
(* Scenario: a byte stream that starts with bytes that are no valid frame -- *)
(* a frame with a damaged checksum, an MBAP header with a length below 2, or *)
(* bytes without a start marker -- followed by one packet from build_packet. *)
(* The stream is handed to process_incoming_packet in chunks, or added to    *)
(* the buffer whole and check_frame and get_frame are called.                *)

MaxGarbage == 12

GarbageBytes == {0, 13, 125}

\* n copies of the byte b
Copies(b, n) == [i \in 1..n |-> b]

\* bytes that hold neither ':' nor '{'
Garbage ==
    { Copies(b, n) : b \in GarbageBytes, n \in {1, 2, MaxGarbage} }
    \cup { << 13, 10 >>, << 48, 125, 13, 10 >> }

\* a checksum byte other than b that is no delimiter (a hex digit for ASCII)
Damaged(kind, b) ==
    IF kind = "ascii" THEN (IF b = 48 THEN 49 ELSE 48)
    ELSE IF kind = "binary" /\ ((b + 1) % 256) \in BinaryRepeat THEN (b + 2) % 256
    ELSE (b + 1) % 256

\* where the last checksum byte of a packet is
ChecksumEnd(kind, packet) ==
    IF kind = "rtu" THEN Len(packet)
    ELSE IF kind = "ascii" THEN Len(packet) - 2
    ELSE Len(packet) - 1

\* the packet with the last byte of its checksum replaced
Corrupt(kind, packet) ==
    [packet EXCEPT ![ChecksumEnd(kind, packet)] = Damaged(kind, @)]

\* MBAP headers whose length field is 0 or 1
ShortHeaders == { PackH(1) \o PackH(0) \o PackH(len) \o << 1 >> : len \in {0, 1} }

\* what the stream may start with, for a framer f
Prefixes(f) ==
    (IF f.kind = "tcp"
     THEN { [how |-> "short", bytes |-> h] : h \in ShortHeaders }
     ELSE { [how |-> "corrupt", bytes |-> Corrupt(f.kind, build_packet(f, m))] :
              m \in StreamMessages(f.decoder) })
    \cup (IF f.kind \in {"ascii", "binary"}
          THEN { [how |-> "garbage", bytes |-> g] : g \in Garbage }
          ELSE {})

NoiseStart(f, prefix, m) ==
    /\ framer = f
    /\ pdu = [cls |-> "Prefix", how |-> prefix.how, len |-> Len(prefix.bytes)]
    /\ stream = prefix.bytes \o build_packet(f, m)
    /\ marks = << [end |-> Len(prefix.bytes) + Len(build_packet(f, m)), pdu |-> m] >>

NoiseInit ==
    /\ \E kind \in FramerKinds, decoder \in Decoders :
          \E prefix \in Prefixes(NewFramer(kind, decoder)), m \in StreamMessages(decoder) :
             NoiseStart(NewFramer(kind, decoder), prefix, m)
    /\ pos = 0
    /\ delivered = <<>>
    /\ last = [op |-> "none"]
    /\ raised = ""
    /\ TableIdle /\ AsyncIdle /\ SyncIdle /\ ServerIdle

\* the state after check_frame returned c, with what get_frame returns then
NoiseChecked(c) ==
    /\ framer' = c.framer
    /\ last' = [op |-> "check_frame", ret |-> c.ret, exc |-> c.exc,
                frame |-> IF c.exc = "" THEN get_frame(c.framer)
                          ELSE [raised |-> TRUE, v |-> <<>>]]

\* add_to_frame(the whole stream); check_frame(); get_frame()
NoiseCheck ==
    /\ pos = 0
    /\ last.op = "none"
    /\ NoiseChecked(check_frame(add_to_frame(framer, stream)))
    /\ pos' = Len(stream)
    /\ UNCHANGED <<pdu, stream, marks, delivered, raised, tableVars, asyncVars, syncVars, serverVars>>

\* a further process_incoming_packet call that brings no new bytes
NoiseAgain ==
    /\ pos = Len(stream)
    /\ last.op = "process_incoming_packet"
    /\ StreamProcessed(process_incoming_packet(framer, <<>>))
    /\ UNCHANGED <<pos, pdu, stream, marks, raised, tableVars, asyncVars, syncVars, serverVars>>

NoiseNext == StreamChunk \/ NoiseCheck \/ NoiseAgain

SpecNoise == NoiseInit /\ [][NoiseNext]_vars

\* the packet the stream ends with
ValidPacket == PyFrom(stream, pdu.len)

\* the stream's valid frame was the last one handed to the callback
ValidDelivered ==
    /\ delivered # <<>>
    /\ delivered[Len(delivered)] = Restored(framer.kind, marks[1].pdu)

\* every byte of the stream went through process_incoming_packet
AllProcessed == pos = Len(stream) /\ last.op = "process_incoming_packet"

\* C12: for the serial framers (RTU, ASCII, Binary) driven by
\* process_incoming_packet, a complete frame that fails its CRC/LRC check is
\* discarded and the loop goes on: once the valid frame that follows it has been
\* received, that frame has been delivered to the callback, and it stays so
\* after any further call.
C12_CorruptFrameSkipped ==
    (pdu.how = "corrupt" /\ AllProcessed) => ValidDelivered

\* nothing has been removed from the buffer: it starts with the stream's first byte
Untouched == framer.buffer = SubSeq(stream, 1, pos)

\* C13: TCP framer: when the buffer starts with an MBAP header whose len field
\* is below 2 and a complete valid frame follows it, the process_incoming_packet
\* call that finds both skips the malformed frame and delivers the valid frame
\* to the callback in that same call.
C13_ShortHeaderSkippedInCall ==
    [][ (pdu.how = "short" /\ Untouched /\ pos' = Len(stream)
           /\ last'.op = "process_incoming_packet")
        => ValidDelivered' ]_vars

\* C15: for the framers with a start marker (ASCII and Binary), when the buffer
\* holds bytes without the start marker followed by a complete valid frame,
\* check_frame discards the leading bytes and returns true in that same call,
\* and get_frame returns the frame's content: function code and payload.
C15_LeadingGarbageDiscarded ==
    (pdu.how = "garbage" /\ last.op = "check_frame") =>
        /\ last.ret /\ last.exc = ""
        /\ framer.buffer = ValidPacket
        /\ last.frame =
              [raised |-> FALSE,
               v |-> << marks[1].pdu.function_code >> \o encode(marks[1].pdu)]

\* C15 for the ASCII framer alone
C15_Ascii == framer.kind = "ascii" => C15_LeadingGarbageDiscarded

\* a buffer length standing for the configured cap: the source configures none
BufferCap == 8

\* C16: the buffer length never exceeds a configured cap; input that never
\* completes a frame, such as bytes with no start marker, cannot make the buffer
\* grow without bound.  Here: while only bytes without a start marker have been
\* supplied, whether through add_to_frame or process_incoming_packet, the buffer
\* holds at most BufferCap of them.
C16_BufferCapped ==
    (pdu.how = "garbage" /\ pos <= pdu.len) => Len(framer.buffer) <= BufferCap

\* every byte without a start marker supplied so far is still in the buffer
C16_AllKept ==
    (pdu.how = "garbage" /\ pos <= pdu.len) => Untouched

-----------------------------------------------------------------------------
(* Scenario: one byte of a packet from build_packet is replaced by another   *)
(* value, the result is put into a fresh framer and check_frame is called.   *)

FlipKinds == {"rtu", "ascii"}

ByteValues == 0..255

\* the values offered for byte i of the packet: any other value, but for the
\* RTU function code not the code of a message class whose source (and with it
\* its frame size) is not part of the model
FlipValues(kind, packet, i) ==
    { v \in ByteValues :
        /\ v # packet[i]
        /\ ~(kind = "rtu" /\ i = 2 /\ v \in FunctionTable \ BitReadCodes) }

FlipStart(f, m, packet) ==
    /\ framer = f
    /\ pdu = m
    /\ \E i \in 1..Len(packet) :
          \E v \in FlipValues(f.kind, packet, i) :
             /\ pos = i
             /\ stream = [packet EXCEPT ![i] = v]

FlipInit ==
    /\ \E kind \in FlipKinds, decoder \in Decoders :
          \E m \in StreamMessages(decoder) :
             FlipStart(NewFramer(kind, decoder), m,
                       build_packet(NewFramer(kind, decoder), m))
    /\ marks = <<>>
    /\ delivered = <<>>
    /\ last = [op |-> "none"]
    /\ raised = ""
    /\ TableIdle /\ AsyncIdle /\ SyncIdle /\ ServerIdle

\* the state after check_frame returned c
FlipChecked(c) ==
    /\ framer' = c.framer
    /\ last' = [op |-> "check_frame", ret |-> c.ret, exc |-> c.exc]

\* add_to_frame(the packet with one byte replaced); check_frame()
FlipCheck ==
    /\ last.op = "none"
    /\ FlipChecked(check_frame(add_to_frame(framer, stream)))
    /\ UNCHANGED <<pdu, stream, pos, marks, delivered, raised, tableVars, asyncVars, syncVars, serverVars>>

FlipNext == FlipCheck

SpecFlip == FlipInit /\ [][FlipNext]_vars

\* C14: for the RTU and ASCII framers and any packet produced by build_packet,
\* replacing any single byte of the packet by any different value makes
\* check_frame return false: it neither returns true nor raises.
C14_FlipDetected ==
    last.op = "check_frame" => (~last.ret /\ last.exc = "")

\* C14 for the RTU framer alone
C14_Rtu == framer.kind = "rtu" => C14_FlipDetected

\* C14 for the ASCII framer, apart from a replaced hex digit: another character
\* that is no hex digit makes check_frame raise, the same letter in lower case
\* leaves the frame valid
C14_AsciiOutsideDigits ==
    (framer.kind = "ascii" /\ (pos = 1 \/ pos >= Len(stream) - 1)) => C14_FlipDetected
-----------------------------------------------------------------------------
(* Scenario: the operations of one transaction manager, keyed or FIFO, in    *)
(* any order: add_transaction, get_transaction, del_transaction,             *)
(* get_next_tid and reset.                                                   *)

MaxHandles == 3

MaxTid == 3

\* the tids the operations are called with
TableTids == {1, 2}

TableInit ==
    /\ manager \in {"dict", "fifo"}
    /\ transactions = NewTable
    /\ tid = 0
    /\ handles = <<>>
    /\ delivered = <<>>
    /\ last = [op |-> "none"]
    /\ raised = ""
    /\ connected = FALSE /\ transport = "none" /\ written = <<>> /\ wire = <<>>
    /\ FramerIdle /\ StreamIdle /\ SyncIdle /\ ServerIdle

tableRest == <<framer, manager, connected, transport, written, wire, raised, streamVars, syncVars,
              serverVars>>

\* add_transaction(entry, t); t may be left out, and the entry's own
\* transaction_id is then the key
TableAdd ==
    /\ Len(handles) < MaxHandles
    /\ \E t \in TableTids \cup {NoTid}, r \in TableTids :
          /\ transactions' = add_transaction(manager, transactions,
                  [cls |-> "Request", id |-> Len(handles) + 1, transaction_id |-> r], t)
          /\ handles' = Append(handles,
                  [cls |-> "Request", id |-> Len(handles) + 1, transaction_id |-> r])
          /\ last' = [op |-> "add", tid |-> IF t = NoTid THEN r ELSE t,
                      entry |-> [cls |-> "Request", id |-> Len(handles) + 1,
                                 transaction_id |-> r],
                      before |-> transactions]
    /\ UNCHANGED <<tid, delivered, tableRest>>

\* the state after get_transaction(t) returned g
TableGot(t, g) ==
    /\ transactions' = g.transactions
    /\ delivered' = IF g.ret = NoMessage THEN delivered ELSE Append(delivered, g.ret)
    /\ last' = [op |-> "get", tid |-> t, ret |-> g.ret, before |-> transactions]

\* get_transaction(t)
TableGet ==
    /\ \E t \in TableTids : TableGot(t, get_transaction(manager, transactions, t))
    /\ UNCHANGED <<tid, handles, tableRest>>

\* del_transaction(t)
TableDel ==
    /\ \E t \in TableTids :
          /\ transactions' = del_transaction(manager, transactions, t)
          /\ last' = [op |-> "del", tid |-> t, before |-> transactions]
    /\ UNCHANGED <<tid, handles, delivered, tableRest>>

\* get_next_tid()
TableNextTid ==
    /\ tid < MaxTid
    /\ tid' = get_next_tid(tid)
    /\ last' = [op |-> "get_next_tid", ret |-> get_next_tid(tid), before |-> transactions]
    /\ UNCHANGED <<transactions, handles, delivered, tableRest>>

\* reset()
TableReset ==
    /\ tid' = reset(transactions, tid).tid
    /\ transactions' = reset(transactions, tid).transactions
    /\ last' = [op |-> "reset", before |-> transactions, tid |-> tid]
    /\ UNCHANGED <<handles, delivered, tableRest>>

TableNext == TableAdd \/ TableGet \/ TableDel \/ TableNextTid \/ TableReset

SpecTable == TableInit /\ [][TableNext]_vars

\* the entries of a keyed table other than the one under key t are those of before
SameButKey(table, before, t) ==
    /\ DOMAIN table \ {t} = DOMAIN before \ {t}
    /\ \A k \in DOMAIN table \ {t} : table[k] = before[k]

\* C3: for the keyed manager, add_transaction(r, t) leaves table[t] = r whatever
\* was stored under t (with t omitted the key is r.transaction_id), and
\* get_transaction(t) returns the value stored under t and removes it, or returns
\* None when there is none; neither touches another key, so every stored entry is
\* returned by at most one get_transaction.
C3_KeyedAddGet ==
    manager = "dict" =>
        /\ last.op = "add" =>
              /\ last.tid \in DOMAIN transactions
              /\ transactions[last.tid] = last.entry
              /\ SameButKey(transactions, last.before, last.tid)
        /\ last.op = "get" =>
              /\ last.ret = (IF last.tid \in DOMAIN last.before
                             THEN last.before[last.tid] ELSE NoMessage)
              /\ last.tid \notin DOMAIN transactions
              /\ SameButKey(transactions, last.before, last.tid)
        /\ \A i, j \in 1..Len(delivered) : delivered[i] = delivered[j] => i = j

\* C3 witness: the keyed manager has returned two stored entries, the second just
\* now, while a third is still in the table
C3_Witness ==
    /\ manager = "dict" /\ last.op = "get" /\ last.ret # NoMessage
    /\ Len(delivered) = 2 /\ transactions # NewTable

\* C20: reset() on either manager, from any state, puts the tid counter back to
\* its initial value, so that the next get_next_tid returns 1, and leaves the
\* table empty; the manager, and with it the kind of its table (mapping for the
\* keyed one, list for the FIFO one), is the one it was.
C20_ResetRestores ==
    last.op = "reset" =>
        /\ tid = 0
        /\ get_next_tid(tid) = 1
        /\ transactions = NewTable
        /\ manager \in {"dict", "fifo"}
        /\ get_transaction(manager, transactions, 1).ret = NoMessage

\* C20 witness: the FIFO manager was reset while it held two entries and its
\* counter had been advanced
C20_Witness ==
    /\ last.op = "reset" /\ manager = "fifo"
    /\ Len(last.before) = 2 /\ last.tid = MaxTid
    /\ tid = 0 /\ transactions = NewTable

\* the same for the keyed manager
C20_KeyedReset ==
    /\ last.op = "reset" /\ manager = "dict"
    /\ DOMAIN last.before = {1, 2} /\ last.tid = MaxTid
    /\ tid = 0 /\ transactions = NewTable

\* C21: for the keyed manager, del_transaction(tid) removes the entry under tid
\* when there is one and changes nothing otherwise, without raising; deleting
\* again leaves the table as it is, the entries under other tids are those of
\* before, and get_transaction(tid) afterwards returns None.
C21_KeyedDelIdempotent ==
    (manager = "dict" /\ last.op = "del") =>
        /\ raised = ""
        /\ last.tid \notin DOMAIN transactions
        /\ SameButKey(transactions, last.before, last.tid)
        /\ last.tid \notin DOMAIN last.before => transactions = last.before
        /\ del_transaction(manager, transactions, last.tid) = transactions
        /\ get_transaction(manager, transactions, last.tid).ret = NoMessage

\* C21 witness: the keyed manager deleted the entry under one tid while holding
\* an entry under another, which is still there
C21_Witness ==
    /\ manager = "dict" /\ last.op = "del"
    /\ DOMAIN last.before = {1, 2}
    /\ DOMAIN transactions = {1, 2} \ {last.tid}

\* del_transaction of a tid that has no entry, on a table that is not empty
C21_AbsentTid ==
    /\ manager = "dict" /\ last.op = "del"
    /\ last.tid \notin DOMAIN last.before
    /\ transactions = last.before /\ transactions # NewTable


-----------------------------------------------------------------------------
(* Scenario: the transaction identifier counter of one manager, keyed or     *)
(* FIFO: get_next_tid called over and over, reset at any moment.  last.calls *)
(* counts the calls of get_next_tid since construction or the last reset.    *)

\* more calls than two periods of the counter
MaxCalls == 131074

TidInit ==
    /\ manager \in {"dict", "fifo"}
    /\ transactions = NewTable
    /\ tid = 0
    /\ last = [op |-> "none", calls |-> 0]
    /\ handles = <<>> /\ delivered = <<>> /\ raised = ""
    /\ FramerIdle /\ StreamIdle /\ AsyncIdle /\ SyncIdle /\ ServerIdle

\* get_next_tid()
TidNextTid ==
    /\ last.calls < MaxCalls
    /\ tid' = get_next_tid(tid)
    /\ last' = [op |-> "get_next_tid", ret |-> get_next_tid(tid), calls |-> last.calls + 1]
    /\ UNCHANGED <<transactions, handles, delivered, tableRest>>

\* reset()
TidReset ==
    /\ tid' = reset(transactions, tid).tid
    /\ transactions' = reset(transactions, tid).transactions
    /\ last' = [op |-> "reset", calls |-> 0]
    /\ UNCHANGED <<handles, delivered, tableRest>>

TidNext == TidNextTid \/ TidReset

SpecTid == TidInit /\ [][TidNext]_vars

\* C19: counted from construction or from the last reset, the k-th call of
\* get_next_tid returns k mod 0x10000 and leaves the counter at that value: the
\* first call returns 1, every value is in 0..0xFFFF, 0xFFFF is followed by 0,
\* and the values repeat with period 0x10000 and no shorter one.
C19_TidSequence ==
    last.op = "get_next_tid" =>
        /\ last.ret = last.calls % 65536
        /\ last.ret \in 0..65535
        /\ tid = last.ret
        /\ last.calls = 1 => last.ret = 1
        /\ last.calls = 65536 => last.ret = 0
        /\ last.calls = 65536 + 1 => last.ret = 1

\* C19 witness: the call after the one that returned 0xFFFF has returned 0
C19_Witness ==
    /\ last.op = "get_next_tid" /\ last.calls = 65536 /\ last.ret = 0 /\ tid = 0

\* the counter has gone round once and returned 1 a second time
C19_SecondPeriod ==
    /\ last.op = "get_next_tid" /\ last.calls = 65537 /\ last.ret = 1

-----------------------------------------------------------------------------
(* pymodbus3.datastore and the execute methods of the requests.  A data      *)
(* block is [address, values]; a slave context holds one block for the       *)
(* discrete inputs and one for the coils and may be a datastore that cannot  *)
(* fulfil a call (fails names the method that raises).                       *)

\* ModbusExceptions: the exception codes
ModbusExceptions ==
    [IllegalFunction |-> 1, IllegalAddress |-> 2, IllegalValue |-> 3, SlaveFailure |-> 4]

\* the largest count a bit read accepts, 0x7d0
MaxReadBits == 2000

ModbusSequentialDataBlock(address, values) == [address |-> address, values |-> values]

SequentialDataBlock_validate(block, address, count) ==
    /\ count > 0
    /\ block.address <= address
    /\ address + count <= block.address + Len(block.values)

SequentialDataBlock_get_values(block, address, count) ==
    PySlice(block.values, address - block.address, address - block.address + count)

ModbusSlaveContext(di, co, fails) == [di |-> di, co |-> co, fails |-> fails]

\* the block a function code is routed to
SlaveContext_block(context, fx) == IF fx = 2 THEN context.di ELSE context.co

SlaveContext_validate(context, fx, address, count) ==
    SequentialDataBlock_validate(SlaveContext_block(context, fx), address, count)

SlaveContext_get_values(context, fx, address, count) ==
    SequentialDataBlock_get_values(SlaveContext_block(context, fx), address, count)

\* ModbusServerContext(slaves, single): a mapping from unit ids to slave
\* contexts; in single mode the one slave is kept under unit id 0
ModbusServerContext(slaves, single) ==
    [kind |-> "ModbusServerContext", single |-> single, slaves |-> slaves]

\* what an operation on the context did: the exception it raised ("" when
\* none), the slave context it returned and the context it left
ContextResult(exc, context, s) == [raised |-> exc, context |-> context, store |-> s]

\* no slave context (nothing was returned)
NoContext == [kind |-> "none"]

\* ModbusServerContext.__getitem__(unit): the one slave in single mode, the
\* slave stored under unit otherwise, ParameterException when there is none
ServerContext_getitem(s, unit) ==
    IF (IF s.single THEN 0 ELSE unit) \in DOMAIN s.slaves
    THEN ContextResult("", s.slaves[IF s.single THEN 0 ELSE unit], s)
    ELSE ContextResult("ParameterException", NoContext, s)

\* ModbusServerContext.__setitem__(unit, context)
ServerContext_setitem(s, unit, context) ==
    ContextResult("", NoContext,
                  [s EXCEPT !.slaves = PutKey(s.slaves, IF s.single THEN 0 ELSE unit, context)])

\* __delitem__ that deletes in single mode as well
ServerContext_delitem_any_mode(s, unit) ==
    IF (IF s.single THEN 0 ELSE unit) \in DOMAIN s.slaves
    THEN ContextResult("", NoContext,
                       [s EXCEPT !.slaves = DropKey(s.slaves, IF s.single THEN 0 ELSE unit)])
    ELSE ContextResult("ParameterException", NoContext, s)

\* ModbusServerContext.__delitem__(unit): ParameterException in single mode
\* and for a unit that has no slave
ServerContext_delitem(s, unit) ==
    IF ~s.single /\ unit \in DOMAIN s.slaves
    THEN ContextResult("", NoContext, [s EXCEPT !.slaves = DropKey(s.slaves, unit)])
    ELSE ContextResult("ParameterException", NoContext, s)

\* request.do_exception(code)
do_exception(request, code) == ExceptionResponse(request.function_code, code)

\* what execute did: the response it returned or the exception that left it,
\* and the datastore methods it called, in order
Returned(response, calls) == [raised |-> "", response |-> response, calls |-> calls]

Failed(exc, calls) == [raised |-> exc, response |-> NoMessage, calls |-> calls]

\* execute that validates the address before the count
ReadBitsRequest_execute_address_first(request, context) ==
    IF ~SlaveContext_validate(context, request.function_code, request.address, request.count)
    THEN Returned(do_exception(request, ModbusExceptions.IllegalAddress), <<"validate">>)
    ELSE IF ~(1 <= request.count /\ request.count <= MaxReadBits)
    THEN Returned(do_exception(request, ModbusExceptions.IllegalValue), <<"validate">>)
    ELSE Returned(ReadBitsResponse(request.function_code,
                      SlaveContext_get_values(context, request.function_code,
                                              request.address, request.count)),
                  <<"validate", "get_values">>)

\* ReadCoilsRequest.execute and ReadDiscreteInputsRequest.execute
ReadBitsRequest_execute(request, context) ==
    IF ~(1 <= request.count /\ request.count <= MaxReadBits)
    THEN Returned(do_exception(request, ModbusExceptions.IllegalValue), <<>>)
    ELSE IF context.fails = "validate" THEN Failed("IOError", <<"validate">>)
    ELSE IF ~SlaveContext_validate(context, request.function_code,
                                   request.address, request.count)
    THEN Returned(do_exception(request, ModbusExceptions.IllegalAddress), <<"validate">>)
    ELSE IF context.fails = "get_values"
    THEN Failed("IOError", <<"validate", "get_values">>)
    ELSE Returned(ReadBitsResponse(request.function_code,
                      SlaveContext_get_values(context, request.function_code,
                                              request.address, request.count)),
                  <<"validate", "get_values">>)

\* IllegalFunctionRequest.execute
IllegalFunctionRequest_execute(request, context) ==
    Returned(ExceptionResponse(request.function_code, ModbusExceptions.IllegalFunction), <<>>)

execute(request, context) ==
    IF request.cls = "ReadBitsRequest" THEN ReadBitsRequest_execute(request, context)
    ELSE IllegalFunctionRequest_execute(request, context)

-----------------------------------------------------------------------------
(* pymodbus3.server.async: ModbusTcpProtocol and ModbusUdpProtocol.          *)

\* what _execute did with a request: the response it passed to send, the
\* exception it caught ("" when none), the exception that left it ("" when
\* none) and the datastore calls of execute
Executed(request, response, caught, calls) ==
    [request |-> request,
     response |-> [response EXCEPT !.transaction_id = request.transaction_id,
                                   !.unit_id = request.unit_id],
     caught |-> caught, raised |-> "", calls |-> calls]

\* the try block: the lookup of the slave context, then request.execute
Protocol_try(request, looked) ==
    IF looked.raised # "" THEN Failed(looked.raised, <<>>)
    ELSE execute(request, looked.context)

\* the except clause and the lines after it
Protocol_respond(request, tried) ==
    IF tried.raised # ""
    THEN Executed(request, do_exception(request, ModbusExceptions.SlaveFailure),
                  tried.raised, tried.calls)
    ELSE Executed(request, tried.response, "", tried.calls)

\* _execute without the lines that copy transaction_id and unit_id
Protocol_execute_unstamped(s, request) ==
    [Protocol_respond(request, Protocol_try(request, ServerContext_getitem(s, request.unit_id)))
     EXCEPT !.response.transaction_id = 0, !.response.unit_id = 0]

\* _execute without the try: the exception leaves it and nothing is sent
Protocol_execute_uncaught(s, request) ==
    IF Protocol_try(request, ServerContext_getitem(s, request.unit_id)).raised # ""
    THEN [request |-> request, response |-> NoMessage, caught |-> "",
          raised |-> Protocol_try(request, ServerContext_getitem(s, request.unit_id)).raised,
          calls |-> <<>>]
    ELSE Protocol_respond(request,
                          Protocol_try(request, ServerContext_getitem(s, request.unit_id)))

\* ModbusTcpProtocol._execute / ModbusUdpProtocol._execute
Protocol_execute(s, request) ==
    Protocol_respond(request, Protocol_try(request, ServerContext_getitem(s, request.unit_id)))

\* send(message): the packet written to the transport (nothing when _execute
\* was left by an exception)
Protocol_send(f, executed) ==
    IF executed.raised # "" THEN <<>> ELSE build_packet(f, executed.response)

-----------------------------------------------------------------------------
(* Scenario: a TCP or UDP server protocol over a datastore; a peer's         *)
(* requests arrive in chunks of any size and every decoded request is        *)
(* executed and answered.                                                    *)

MaxServerFrames == 2

\* coils 0..7, discrete inputs 2..4
ServerSlave(fails) ==
    ModbusSlaveContext(ModbusSequentialDataBlock(2, <<TRUE, FALSE, TRUE>>),
                       ModbusSequentialDataBlock(0, UnpackByte(77)), fails)

ServerStore(single, units, fails) ==
    ModbusServerContext([u \in (IF single THEN {0} ELSE units) |-> ServerSlave(fails)], single)

\* the slave of the scenario's datastore
StoreSlave == store.slaves[CHOOSE u \in DOMAIN store.slaves : TRUE]

ServerSetup(protocol, listen_only) ==
    [protocol |-> protocol, listen_only |-> listen_only, bus_message |-> 0,
     switched |-> 0]

\* the servers: TCP or UDP, over one slave for every unit id or over the slave
\* of unit 1 alone, the slave sound or one whose validate or get_values raises;
\* and a TCP server in listen-only mode
ServerWorlds ==
    { [server |-> ServerSetup("tcp", FALSE), store |-> ServerStore(TRUE, {}, "")],
      [server |-> ServerSetup("tcp", FALSE), store |-> ServerStore(FALSE, {1}, "")],
      [server |-> ServerSetup("tcp", FALSE), store |-> ServerStore(TRUE, {}, "validate")],
      [server |-> ServerSetup("tcp", FALSE), store |-> ServerStore(TRUE, {}, "get_values")],
      [server |-> ServerSetup("udp", FALSE), store |-> ServerStore(TRUE, {}, "")],
      [server |-> ServerSetup("udp", FALSE), store |-> ServerStore(FALSE, {1}, "")],
      [server |-> ServerSetup("udp", FALSE), store |-> ServerStore(TRUE, {}, "get_values")],
      [server |-> ServerSetup("tcp", TRUE), store |-> ServerStore(TRUE, {}, "")] }

\* the requests the peer sends: reads that succeed, reads whose count is out of
\* range (with a valid and with an invalid address), reads that leave the block
\* (one of them with the largest count allowed), and a function code no table has
ServerRequests ==
    { [ReadBitsRequest(1, 0, 1) EXCEPT !.unit_id = 1, !.transaction_id = 1],
      [ReadBitsRequest(1, 0, MaxReadBits) EXCEPT !.unit_id = 2, !.transaction_id = 4660],
      [ReadBitsRequest(1, 0, MaxReadBits + 1) EXCEPT !.unit_id = 1, !.transaction_id = 2],
      [ReadBitsRequest(2, 9, 0) EXCEPT !.unit_id = 2, !.transaction_id = 3],
      [ReadBitsRequest(2, 2, 3) EXCEPT !.unit_id = 2, !.transaction_id = 65535],
      [ReadBitsRequest(2, 4, 2) EXCEPT !.unit_id = 1, !.transaction_id = 5],
      [OtherMessage(9, <<0>>) EXCEPT !.unit_id = 1, !.transaction_id = 7] }

\* the state after the server was built as one of worlds, with a peer about
\* to send up to MaxServerFrames of requests
ServerStart(worlds, requests) ==
    /\ \E w \in worlds : server = w.server /\ store = w.store
    /\ framer = IF server.protocol = "udp" THEN NewFramer("tcp", "server")
                ELSE [kind |-> "none"]
    /\ transport = IF server.protocol = "udp" THEN "open" ELSE "none"
    /\ \E msgs \in SeqsUpTo(requests, MaxServerFrames) :
          /\ stream = Concat([i \in 1..Len(msgs) |->
                                build_packet(NewFramer("tcp", "server"), msgs[i])])
          /\ marks = FrameMarks(NewFramer("tcp", "server"), msgs, 0)
    /\ pdu = NoMessage
    /\ pos = 0
    /\ delivered = <<>>
    /\ written = <<>>
    /\ wire = <<>>
    /\ last = [op |-> "none"]
    /\ raised = ""
    /\ connected = FALSE /\ handles = <<>>
    /\ TableIdle /\ SyncIdle

ServerInit == ServerStart(ServerWorlds, ServerRequests)

serverRest == <<store, connected, handles, pdu, stream, marks, tableVars, syncVars>>

\* ModbusTcpProtocol.connection_made(): the framer is built here
ServerConnectionMade ==
    /\ server.protocol = "tcp" /\ transport = "none"
    /\ transport' = "open"
    /\ framer' = NewFramer("tcp", "server")
    /\ last' = [op |-> "connection_made"]
    /\ UNCHANGED <<server, pos, delivered, written, wire, raised, serverRest>>

\* _execute applied to every request of results, each followed by send
RECURSIVE ServerExecuteAll(_, _)
ServerExecuteAll(s, results) ==
    IF results = <<>> THEN <<>>
    ELSE IF Protocol_execute(s, Head(results)).raised # ""
    THEN << Protocol_execute(s, Head(results)) >>
    ELSE << Protocol_execute(s, Head(results)) >> \o ServerExecuteAll(s, Tail(results))

\* the exception that left the callbacks
ServerRaised(executed) ==
    IF executed # <<>> /\ executed[Len(executed)].raised # ""
    THEN executed[Len(executed)].raised ELSE ""

\* the state after process_incoming_packet(data, self._execute) decoded the
\* requests r.results and _execute ran on them
ServerExecuted(r, executed) ==
    /\ framer' = r.framer
    /\ delivered' = delivered \o r.results
    /\ written' = written \o executed
    /\ wire' = wire \o Concat([i \in 1..Len(executed) |-> Protocol_send(framer, executed[i])])
    /\ server' = [server EXCEPT !.bus_message =
                     @ + Cardinality({ i \in 1..Len(executed) : executed[i].raised = "" })]
    /\ raised' = IF ServerRaised(executed) # "" THEN ServerRaised(executed) ELSE r.exc

ServerReceived(r) == ServerExecuted(r, ServerExecuteAll(store, r.results))

\* the bytes the server has received while it was not in listen-only mode
Kept == IF "kept" \in DOMAIN last THEN last.kept ELSE <<>>

\* data_received in listen-only mode if it put the chunk into the buffer and
\* only held back the processing
ServerDataReceivedBuffering ==
    /\ transport = "open"
    /\ pos < Len(stream)
    /\ \E n \in 1..MaxChunk :
          /\ pos + n <= Len(stream)
          /\ pos' = pos + n
          /\ IF server.listen_only
             THEN /\ last' = [op |-> "data_received", executed |-> 0, kept |-> Kept]
                  /\ framer' = add_to_frame(framer, SubSeq(stream, pos + 1, pos + n))
                  /\ UNCHANGED <<delivered, written, wire, server, raised>>
             ELSE /\ ServerReceived(process_incoming_packet(framer,
                                        SubSeq(stream, pos + 1, pos + n)))
                  /\ last' = [op |-> "data_received",
                              executed |-> Len(written') - Len(written),
                              kept |-> Kept \o SubSeq(stream, pos + 1, pos + n)]
    /\ UNCHANGED <<transport, serverRest>>

\* data_received(the next n bytes) / datagram_received(the next n bytes, addr)
ServerDataReceived ==
    /\ transport = "open"
    /\ pos < Len(stream)
    /\ \E n \in 1..MaxChunk :
          /\ pos + n <= Len(stream)
          /\ pos' = pos + n
          /\ IF server.listen_only
             THEN /\ last' = [op |-> "data_received", executed |-> 0, kept |-> Kept]
                  /\ UNCHANGED <<framer, delivered, written, wire, server, raised>>
             ELSE /\ ServerReceived(process_incoming_packet(framer,
                                        SubSeq(stream, pos + 1, pos + n)))
                  /\ last' = [op |-> "data_received",
                              executed |-> Len(written') - Len(written),
                              kept |-> Kept \o SubSeq(stream, pos + 1, pos + n)]
    /\ UNCHANGED <<transport, serverRest>>

ServerNext == ServerConnectionMade \/ ServerDataReceived

SpecServer == ServerInit /\ [][ServerNext]_vars

\* C22: every response the TCP or the UDP server handed to the framer, normal
\* or exception response, carries the transaction_id and the unit_id of the
\* request it answers, and so does the packet written to the transport.
C22_ResponseEchoesIds ==
    /\ \A i \in 1..Len(written) :
          /\ written[i].request = delivered[i]
          /\ written[i].response.cls \in {"ReadBitsResponse", "ExceptionResponse"}
          /\ written[i].response.transaction_id = delivered[i].transaction_id
          /\ written[i].response.unit_id = delivered[i].unit_id
          /\ delivered[i].transaction_id = marks[i].pdu.transaction_id
          /\ delivered[i].unit_id = marks[i].pdu.unit_id
    /\ wire = Concat([i \in 1..Len(written) |->
                        build_packet(NewFramer("tcp", "server"),
                            [written[i].response
                             EXCEPT !.transaction_id = marks[i].pdu.transaction_id,
                                    !.unit_id = marks[i].pdu.unit_id])])

\* C22 witness: the UDP server answered a read with the bits and a bad read with
\* an exception response, under the tids and units of the two requests
C22_Witness ==
    /\ server.protocol = "udp" /\ Len(written) = 2
    /\ written[1].response.cls = "ReadBitsResponse"
    /\ written[2].response.cls = "ExceptionResponse"
    /\ written[1].response.transaction_id = 65535 /\ written[1].response.unit_id = 2
    /\ written[2].response.transaction_id = 5 /\ written[2].response.unit_id = 1

\* the same exchange on the TCP server
C22_Tcp ==
    /\ server.protocol = "tcp" /\ Len(written) = 2
    /\ written[1].response.cls = "ExceptionResponse"
    /\ written[2].response.cls = "ReadBitsResponse"
    /\ written[2].response.transaction_id = 65535 /\ written[2].response.unit_id = 2

\* the lookup of the slave context for the request's unit id raises
LookupFails(request) == ~store.single /\ request.unit_id \notin DOMAIN store.slaves

\* C23: when the lookup of the slave context or request.execute raises, the
\* exception is caught: none leaves data_received, the request is answered with
\* an exception response of code SlaveFailure, and the requests that follow are
\* executed and answered as well (one answer for every frame received).
C23_ExceptionsBecomeSlaveFailure ==
    /\ raised = ""
    /\ ~server.listen_only => Len(written) = FramesEndedBy(pos)
    /\ \A i \in 1..Len(written) :
          /\ written[i].raised = ""
          /\ LookupFails(written[i].request) => written[i].caught = "ParameterException"
          /\ written[i].caught # "" =>
                /\ written[i].response.cls = "ExceptionResponse"
                /\ written[i].response.exception_code = ModbusExceptions.SlaveFailure
                /\ written[i].response.original_code = written[i].request.function_code

\* C23 witness: execute raised in the datastore for the first request, which was
\* answered with SlaveFailure, and the second request was executed after it
C23_Witness ==
    /\ Len(written) = 2
    /\ written[1].caught = "IOError" /\ written[1].calls # <<>>
    /\ written[1].response.exception_code = ModbusExceptions.SlaveFailure
    /\ written[2].caught = "" /\ written[2].response.cls = "ExceptionResponse"
    /\ written[2].response.exception_code = ModbusExceptions.IllegalValue

\* the lookup of an unknown unit raised, and the next request, for a unit the
\* store has, was answered with the bits
C23_UnknownUnit ==
    /\ Len(written) = 2
    /\ written[1].caught = "ParameterException"
    /\ written[1].response.exception_code = ModbusExceptions.SlaveFailure
    /\ written[2].response.cls = "ReadBitsResponse"

\* the block of the datastore a read of function code fx is served from
BlockOf(fx) == IF fx = 2 THEN StoreSlave.di ELSE StoreSlave.co

\* every address of [address, address + count) is in the block
InBlock(block, address, count) ==
    \A a \in address..(address + count - 1) :
       a >= block.address /\ a < block.address + Len(block.values)

\* the execute calls the claim is about: bit reads that reached a sound datastore
ReadExecuted(e) ==
    /\ e.request.cls = "ReadBitsRequest"
    /\ ~LookupFails(e.request)
    /\ StoreSlave.fails = ""

\* C27: ReadCoilsRequest.execute and ReadDiscreteInputsRequest.execute answer a
\* count outside 1..0x7D0 with IllegalValue without calling the datastore, also
\* when the address is invalid as well; else an address range that is not in the
\* block with IllegalAddress, after validate alone; else with the values the
\* datastore holds at those addresses.  The datastore is not modified.
C27_ReadBitsExecute ==
    /\ store.kind # "none" => StoreSlave = ServerSlave(StoreSlave.fails)
    /\ \A i \in 1..Len(written) :
          ReadExecuted(written[i]) =>
             IF ~(written[i].request.count \in 1..MaxReadBits)
             THEN /\ written[i].response.cls = "ExceptionResponse"
                  /\ written[i].response.exception_code = ModbusExceptions.IllegalValue
                  /\ written[i].calls = <<>>
             ELSE IF ~InBlock(BlockOf(written[i].request.function_code),
                              written[i].request.address, written[i].request.count)
             THEN /\ written[i].response.cls = "ExceptionResponse"
                  /\ written[i].response.exception_code = ModbusExceptions.IllegalAddress
                  /\ written[i].calls = <<"validate">>
             ELSE /\ written[i].response.cls = "ReadBitsResponse"
                  /\ written[i].response.function_code = written[i].request.function_code
                  /\ written[i].response.bits =
                        [j \in 1..written[i].request.count |->
                           BlockOf(written[i].request.function_code).values[
                              written[i].request.address
                              - BlockOf(written[i].request.function_code).address + j]]
                  /\ written[i].calls = <<"validate", "get_values">>

\* C27 witness: a read whose count is 0 and whose address is outside the block
\* was answered with IllegalValue, the datastore untouched, and a read of the
\* three discrete inputs with their values
C27_Witness ==
    /\ Len(written) = 2 /\ ReadExecuted(written[1]) /\ ReadExecuted(written[2])
    /\ written[1].request.count = 0 /\ written[1].request.address = 9
    /\ written[1].response.exception_code = ModbusExceptions.IllegalValue
    /\ written[1].calls = <<>>
    /\ written[2].response.cls = "ReadBitsResponse"
    /\ written[2].response.bits = <<TRUE, FALSE, TRUE>>

\* a read of the largest count allowed that leaves the block was answered with
\* IllegalAddress, and a read of one more with IllegalValue
C27_CountBoundary ==
    /\ Len(written) = 2 /\ ReadExecuted(written[1]) /\ ReadExecuted(written[2])
    /\ written[1].request.count = MaxReadBits
    /\ written[1].response.exception_code = ModbusExceptions.IllegalAddress
    /\ written[2].request.count = MaxReadBits + 1
    /\ written[2].response.exception_code = ModbusExceptions.IllegalValue


-----------------------------------------------------------------------------
(* Scenario: a TCP or UDP server whose control block's ListenOnly flag is    *)
(* set and cleared at any time while a peer's requests arrive in chunks of   *)
(* any size.                                                                 *)

\* how often the flag is set or cleared
MaxSwitches == 2

\* the servers: TCP and UDP over a sound slave, not in listen-only mode when
\* they are built
ListenWorlds ==
    { [server |-> ServerSetup("tcp", FALSE), store |-> ServerStore(TRUE, {}, "")],
      [server |-> ServerSetup("udp", FALSE), store |-> ServerStore(TRUE, {}, "")] }

\* the requests the peer sends: a read that succeeds and one that leaves the
\* block
ListenRequests ==
    { [ReadBitsRequest(1, 0, 1) EXCEPT !.unit_id = 1, !.transaction_id = 1],
      [ReadBitsRequest(2, 4, 2) EXCEPT !.unit_id = 1, !.transaction_id = 5] }

ListenInit == ServerStart(ListenWorlds, ListenRequests)

\* control.ListenOnly = not control.ListenOnly
ServerSetListenOnly ==
    /\ server.switched < MaxSwitches
    /\ server' = [server EXCEPT !.listen_only = ~@, !.switched = @ + 1]
    /\ last' = [op |-> "set_listen_only", kept |-> Kept]
    /\ UNCHANGED <<framer, transport, pos, delivered, written, wire, raised, serverRest>>

ListenNext ==
    \/ ServerConnectionMade
    \/ ServerDataReceived
    \/ ServerSetListenOnly

SpecListen == ListenInit /\ [][ListenNext]_vars

\* a step that is one call of data_received or datagram_received
ServerReceiveStep == pos' > pos

\* s ends with t
EndsWith(s, t) == Len(t) <= Len(s) /\ SubSeq(s, Len(s) - Len(t) + 1, Len(s)) = t

\* C40: while the control block's ListenOnly flag is set, the TCP and the UDP
\* server discard every chunk they receive: nothing is appended to the
\* framer's buffer, no request is decoded or executed, no response is written
\* and the bus message counter does not change; and the bytes received during
\* listen-only are not replayed after the flag is cleared: setting or clearing
\* it changes nothing else, and the buffer only ever holds bytes that were
\* received while the flag was clear.
C40_ListenOnlyDiscards ==
    /\ [](transport = "open" => EndsWith(Kept, framer.buffer))
    /\ [][ /\ (ServerReceiveStep /\ server.listen_only) =>
                 /\ framer' = framer
                 /\ delivered' = delivered
                 /\ written' = written /\ wire' = wire
                 /\ server' = server
                 /\ raised' = raised
                 /\ Kept' = Kept
           /\ (ServerReceiveStep /\ ~server.listen_only) =>
                 /\ Len(Kept') = Len(Kept) + (pos' - pos)
                 /\ Len(delivered') - Len(delivered) = Len(written') - Len(written)
                 /\ server'.bus_message - server.bus_message
                       = Len(written') - Len(written)
           /\ server'.listen_only # server.listen_only =>
                 /\ framer' = framer /\ pos' = pos
                 /\ delivered' = delivered
                 /\ written' = written /\ wire' = wire
                 /\ server'.bus_message = server.bus_message
                 /\ Kept' = Kept
         ]_vars

\* C40 witness: the UDP server was in listen-only mode while the first of two
\* requests arrived, the flag was then cleared, and only the second request
\* was executed and answered
C40_Witness ==
    /\ server.protocol = "udp" /\ ~server.listen_only
    /\ Len(marks) = 2 /\ pos = Len(stream)
    /\ Kept = SubSeq(stream, marks[1].end + 1, Len(stream))
    /\ Len(delivered) = 1
    /\ delivered[1].transaction_id = marks[2].pdu.transaction_id
    /\ marks[1].pdu.transaction_id # marks[2].pdu.transaction_id
    /\ Len(written) = 1 /\ server.bus_message = 1
    /\ framer.buffer = <<>>

\* the same on the TCP server, still in listen-only mode after both requests
\* arrived: nothing was executed or written
C40_TcpHeardNothing ==
    /\ server.protocol = "tcp" /\ server.listen_only
    /\ Len(marks) = 2 /\ pos = Len(stream)
    /\ Kept = <<>> /\ framer.buffer = <<>>
    /\ delivered = <<>> /\ written = <<>> /\ wire = <<>>
    /\ server.bus_message = 0

-----------------------------------------------------------------------------
(* Scenario: one ModbusServerContext, in single or in multi mode, indexed,   *)
(* assigned to and deleted from in any order.  last holds the operation, the *)
(* context before it, what it returned or raised, and the unit ids that were *)
(* given a slave and not deleted since.                                      *)

\* the unit ids a slave is stored under or deleted from
ContextUnits == {0, 1, 247}

\* every unit id
AllUnits == 0..255

\* two slave contexts that differ
ContextSlaves ==
    { ServerSlave(""),
      ModbusSlaveContext(ModbusSequentialDataBlock(0, <<TRUE>>),
                         ModbusSequentialDataBlock(0, <<FALSE>>), "") }

\* ModbusServerContext(slaves=slave, single=True) and
\* ModbusServerContext(slaves={...}, single=False)
ContextStores ==
    { ModbusServerContext([u \in {0} |-> ServerSlave("")], TRUE),
      ModbusServerContext(<<>>, FALSE),
      ModbusServerContext([u \in {0, 1} |-> ServerSlave("")], FALSE) }

ContextInit ==
    /\ store \in ContextStores
    /\ server = [protocol |-> "none"]
    /\ last = [op |-> "none", set |-> IF store.single THEN AllUnits ELSE DOMAIN store.slaves]
    /\ raised = ""
    /\ delivered = <<>>
    /\ FramerIdle /\ StreamIdle /\ TableIdle /\ AsyncIdle /\ SyncIdle

contextRest == <<server, framer, delivered, streamVars, tableVars, asyncVars, syncVars>>

\* the state after an operation on unit returned r
ContextDone(op, unit, slave, r, set) ==
    /\ store' = r.store
    /\ raised' = r.raised
    /\ last' = [op |-> op, unit |-> unit, slave |-> slave, ret |-> r, before |-> store,
                set |-> set]

\* context[unit]
ContextGet ==
    /\ \E unit \in AllUnits :
          ContextDone("get", unit, NoContext, ServerContext_getitem(store, unit), last.set)
    /\ UNCHANGED contextRest

\* context[unit] = slave
ContextSet ==
    /\ \E unit \in ContextUnits, slave \in ContextSlaves :
          ContextDone("set", unit, slave, ServerContext_setitem(store, unit, slave),
                      last.set \cup {unit})
    /\ UNCHANGED contextRest

\* del context[unit]
ContextDel ==
    /\ \E unit \in ContextUnits :
          ContextDone("del", unit, NoContext, ServerContext_delitem(store, unit),
                      IF store.single THEN last.set ELSE last.set \ {unit})
    /\ UNCHANGED contextRest

ContextNext == ContextGet \/ ContextSet \/ ContextDel

SpecContext == ContextInit /\ [][ContextNext]_vars

\* indexing s with unit gives the slave context c
Yields(s, unit, c) ==
    /\ ServerContext_getitem(s, unit).raised = ""
    /\ ServerContext_getitem(s, unit).context = c

\* indexing s with unit raises ParameterException
Refuses(s, unit) == ServerContext_getitem(s, unit).raised = "ParameterException"

\* C31: in single mode indexing with any unit id of 0..255 yields one and the
\* same slave context, and deleting any unit id raises ParameterException and
\* leaves the context as it was; in multi mode indexing a unit id that was never
\* given a slave, or whose slave was deleted, raises ParameterException, and
\* indexing a unit id that was given one yields the slave stored for it last.
C31_ServerContextIndexing ==
    /\ store.single =>
          /\ \A u \in AllUnits : Yields(store, u, store.slaves[0])
          /\ last.op = "set" => store.slaves[0] = last.slave
          /\ last.op = "del" =>
                /\ last.ret.raised = "ParameterException"
                /\ store = last.before
    /\ ~store.single =>
          /\ \A u \in AllUnits : Refuses(store, u) <=> u \notin last.set
          /\ last.op = "set" =>
                /\ Yields(store, last.unit, last.slave)
                /\ \A u \in last.set \ {last.unit} :
                      Yields(store, u, last.before.slaves[u])
          /\ last.op = "del" =>
                /\ Refuses(store, last.unit)
                /\ \A u \in last.set : Yields(store, u, last.before.slaves[u])
    /\ last.op = "get" =>
          /\ store = last.before
          /\ last.ret.raised = "" => Yields(store, last.unit, last.ret.context)
          /\ last.ret.raised # "" => Refuses(store, last.unit)

\* C31 witness: in multi mode unit 1 was deleted while unit 247 holds the other
\* slave, which indexing still yields
C31_Witness ==
    /\ ~store.single /\ last.op = "del" /\ last.unit = 1 /\ last.ret.raised = ""
    /\ 1 \in DOMAIN last.before.slaves
    /\ Refuses(store, 1)
    /\ Yields(store, 247, ModbusSlaveContext(ModbusSequentialDataBlock(0, <<TRUE>>),
                                              ModbusSequentialDataBlock(0, <<FALSE>>), ""))

\* in single mode the deletion of unit 247 was refused and unit 255 still
\* indexes to the slave
C31_SingleDelete ==
    /\ store.single /\ last.op = "del" /\ last.unit = 247
    /\ last.ret.raised = "ParameterException"
    /\ Yields(store, 255, ServerSlave(""))
-----------------------------------------------------------------------------
(* Scenario: one ModbusClientProtocol.  The application calls execute, the   *)
(* peer answers the requests it was sent in any order, and the reactor calls *)
(* connection_made, data_received with chunks of 1..MaxChunk bytes, and      *)
(* connection_lost.  delivered lists the decoded responses in the order      *)
(* process_incoming_packet handed them to _handle_response.                  *)

MaxRequests == 3

AsyncKinds == {"tcp", "rtu"}

\* the requests the application executes
AsyncRequests == { [ReadBitsRequest(1, 0, 1) EXCEPT !.unit_id = 1] }

\* the well-formed responses a peer may give to a request: they carry the
\* request's transaction id
AsyncReplies(request) ==
    { [r EXCEPT !.unit_id = request.unit_id, !.transaction_id = request.transaction_id] :
        r \in { ReadBitsResponse(request.function_code, UnpackByte(205)),
                ExceptionResponse(request.function_code, 4) } }

Min(a, b) == IF a < b THEN a ELSE b

\* Deferred.callback / Deferred.errback on handle h
Fire(h, state, reply) ==
    [h EXCEPT !.state = state, !.reply = reply, !.fired = @ + 1]

\* if handler: ... else: the oldest handle is called back instead
handle_found_oldest(s, reply, g) ==
    [transactions |-> g.transactions,
     handles |-> IF g.ret = NoMessage
                 THEN IF s.handles = <<>> THEN s.handles
                      ELSE [s.handles EXCEPT ![1] = Fire(@, "callback", reply)]
                 ELSE [s.handles EXCEPT ![g.ret.id] = Fire(@, "callback", reply)],
     exc |-> ""]

\* the handler found (or None) for reply: if handler: handler.callback(reply)
handle_found(s, reply, g) ==
    [transactions |-> g.transactions,
     handles |-> IF g.ret = NoMessage THEN s.handles
                 ELSE [s.handles EXCEPT ![g.ret.id] = Fire(@, "callback", reply)],
     exc |-> ""]

_handle_response(m, s, reply) ==
    IF reply = NoMessage THEN s
    ELSE handle_found(s, reply, get_transaction(m, s.transactions, reply.transaction_id))

\* the callbacks process_incoming_packet makes, one per decoded reply, in order
RECURSIVE handle_responses(_, _, _)
handle_responses(m, s, replies) ==
    IF replies = <<>> THEN s
    ELSE handle_responses(m, _handle_response(m, s, Head(replies)), Tail(replies))

\* get_transaction(tid).errback(Failure(ConnectionException(...))); None has no errback
fail_found(s, g) ==
    IF g.ret = NoMessage
    THEN [s EXCEPT !.exc = "AttributeError"]
    ELSE [transactions |-> g.transactions,
          handles |-> [s.handles EXCEPT ![g.ret.id] = Fire(@, "errback", ConnectionFailure)],
          exc |-> ""]

\* the body of connection_lost's loop over the snapshot list(self.transaction)
RECURSIVE fail_all(_, _, _)
fail_all(m, s, snapshot) ==
    IF snapshot = <<>> \/ s.exc # "" THEN s
    ELSE fail_all(m, fail_found(s, get_transaction(m, s.transactions, Head(snapshot))),
                  Tail(snapshot))

AsyncInit ==
    /\ \E kind \in AsyncKinds :
          /\ framer = NewFramer(kind, "client")
          /\ manager = ManagerFor(kind)
    /\ transactions = NewTable
    /\ tid = 0
    /\ connected = FALSE
    /\ transport = "none"
    /\ handles = <<>>
    /\ written = <<>>
    /\ wire = <<>>
    /\ raised = ""
    /\ last = [op |-> "none"]
    /\ delivered = <<>>
    /\ StreamIdle /\ SyncIdle /\ ServerIdle

asyncRest == <<manager, delivered, streamVars, syncVars, serverVars>>

\* connection_made()
AsyncConnectionMade ==
    /\ transport = "none"
    /\ transport' = "open"
    /\ connected' = TRUE
    /\ raised' = ""
    /\ last' = [op |-> "connection_made"]
    /\ UNCHANGED <<framer, transactions, tid, handles, written, wire, asyncRest>>

\* execute(request): the tid is assigned, the packet written to the transport
\* (there is none before the connection is made), and _build_response returns
\* a failed deferred when not connected, a pending one stored under the tid
\* otherwise
AsyncExecuted ==
    /\ tid' = get_next_tid(tid)
    /\ \E r \in AsyncRequests :
          IF transport = "none"
          THEN /\ raised' = "AttributeError"
               /\ UNCHANGED <<written, handles, transactions>>
          ELSE /\ raised' = ""
               /\ written' = Append(written,
                      [request |-> [r EXCEPT !.transaction_id = get_next_tid(tid)],
                       sent |-> (transport = "open"), answer |-> NoMessage])
               /\ IF ~connected
                  THEN /\ handles' = Append(handles,
                              [tid |-> get_next_tid(tid), state |-> "errback",
                               reply |-> ConnectionFailure, fired |-> 1])
                       /\ UNCHANGED transactions
                  ELSE /\ handles' = Append(handles,
                              [tid |-> get_next_tid(tid), state |-> "pending",
                               reply |-> NoMessage, fired |-> 0])
                       /\ transactions' = add_transaction(manager, transactions,
                              Deferred(Len(handles) + 1), get_next_tid(tid))
    /\ last' = [op |-> "execute"]
    /\ UNCHANGED <<framer, connected, transport, wire, asyncRest>>

\* execute(request), up to MaxRequests times
AsyncExecute == tid < MaxRequests /\ AsyncExecuted

\* the peer answers one of the requests it was sent and has not answered yet
AsyncServerReply ==
    /\ transport = "open"
    /\ \E i \in 1..Len(written) :
          /\ written[i].sent /\ written[i].answer = NoMessage
          /\ \E resp \in AsyncReplies(written[i].request) :
                /\ written' = [written EXCEPT ![i].answer = resp]
                /\ wire' = wire \o build_packet(framer, resp)
    /\ UNCHANGED <<framer, transactions, tid, connected, transport, handles, raised,
                   last, asyncRest>>

\* the state the callbacks of a data_received call leave
AsyncHandled(s) ==
    /\ transactions' = s.transactions
    /\ handles' = s.handles

\* the state after process_incoming_packet returned r
AsyncReceived(r) ==
    /\ framer' = r.framer
    /\ raised' = r.exc
    /\ delivered' = delivered \o r.results
    /\ AsyncHandled(handle_responses(manager,
            [transactions |-> transactions, handles |-> handles, exc |-> ""], r.results))

\* data_received(the next n bytes)
AsyncDataReceived ==
    /\ transport = "open"
    /\ wire # <<>>
    /\ \E n \in 1..Min(MaxChunk, Len(wire)) :
          /\ AsyncReceived(process_incoming_packet(framer, SubSeq(wire, 1, n)))
          /\ wire' = PyFrom(wire, n)
    /\ last' = [op |-> "data_received"]
    /\ UNCHANGED <<tid, connected, transport, written, manager, streamVars, syncVars, serverVars>>

\* the state the loop of connection_lost leaves
AsyncFailed(s) ==
    /\ raised' = s.exc
    /\ AsyncHandled(s)

\* the state after list(self.transaction) gave l
AsyncLost(l) ==
    IF l.raised
    THEN /\ raised' = "TypeError"
         /\ UNCHANGED <<transactions, handles>>
    ELSE AsyncFailed(fail_all(manager,
            [transactions |-> transactions, handles |-> handles, exc |-> ""], l.v))

\* connection_lost(reason)
AsyncConnectionLost ==
    /\ transport = "open"
    /\ transport' = "closed"
    /\ connected' = FALSE
    /\ wire' = <<>>
    /\ AsyncLost(Manager_list(manager, transactions))
    /\ last' = [op |-> "connection_lost", pending |-> PendingIds(transactions)]
    /\ UNCHANGED <<framer, tid, written, asyncRest>>

AsyncNext ==
    \/ AsyncConnectionMade
    \/ AsyncExecute
    \/ AsyncServerReply
    \/ AsyncDataReceived
    \/ AsyncConnectionLost

SpecAsync == AsyncInit /\ [][AsyncNext]_vars

\* C1: with the TCP framer (and so the keyed manager), whatever the number of
\* requests in flight, the order their responses arrive in and the chunks they
\* arrive in, a handle that was called back was called back once, with the decoded
\* response the peer gave to its request, whose transaction id is the handle's;
\* and once every byte written by the peer has been received, every pending
\* handle whose request was answered has been called back.
C1_HandleGetsItsResponse ==
    framer.kind = "tcp" =>
        /\ \A i \in 1..Len(handles) :
              handles[i].state = "callback" =>
                 /\ handles[i].fired = 1
                 /\ handles[i].reply.transaction_id = handles[i].tid
                 /\ handles[i].reply = Decoded(written[i].answer)
        /\ (transport = "open" /\ wire = <<>>) =>
              \A i \in 1..Len(handles) :
                 written[i].answer # NoMessage => handles[i].state = "callback"

\* C1 witness: three requests in flight over TCP, the third called back with
\* its response while the response to the first is still to be received
C1_Witness ==
    /\ framer.kind = "tcp" /\ Len(handles) = 3
    /\ handles[3].state = "callback" /\ handles[3].reply.transaction_id = 3
    /\ handles[1].state = "pending" /\ written[1].answer # NoMessage

\* C2: after connection_lost, with the keyed and with the FIFO manager, every
\* handle that was pending in the table has been failed with a
\* ConnectionException exactly once and the table is empty.
C2_ConnectionLostFailsPending ==
    last.op = "connection_lost" =>
        /\ transactions = NewTable
        /\ \A i \in last.pending :
              /\ handles[i].state = "errback"
              /\ handles[i].fired = 1
              /\ handles[i].reply = ConnectionFailure


\* the handle execute has just returned
Returned_handle == handles[Len(handles)]

\* C25: with the TCP framer, execute on a client that is not connected (before
\* connection_made or after connection_lost) returns a handle that is already
\* failed with a ConnectionException and adds nothing to the table; on a
\* connected client it returns a pending handle and adds exactly one entry, the
\* handle under its tid.
C25_NotConnectedFailsHandle ==
    (framer.kind = "tcp" /\ last.op = "execute") =>
        /\ raised = ""
        /\ Len(handles) > 0
        /\ Returned_handle.tid = tid
        /\ IF ~connected
           THEN /\ Returned_handle.state = "errback"
                /\ Returned_handle.reply = ConnectionFailure
                /\ tid \notin DOMAIN transactions
           ELSE /\ Returned_handle.state = "pending"
                /\ tid \in DOMAIN transactions
                /\ transactions[tid] = Deferred(Len(handles))
        /\ PendingIds(transactions) = { i \in 1..Len(handles) : handles[i].state = "pending" }

\* the same once the protocol has a transport: after connection_made, and after
\* connection_lost
C25_WithTransport == transport # "none" => C25_NotConnectedFailsHandle

\* execute after connection_lost returned a failed handle while the table stayed
\* empty
C25_AfterLost ==
    /\ framer.kind = "tcp" /\ last.op = "execute" /\ transport = "closed"
    /\ Returned_handle.state = "errback" /\ Returned_handle.tid = tid
    /\ transactions = NewTable

-----------------------------------------------------------------------------
(* Scenario: a ModbusClientProtocol over TCP and a peer that writes what it  *)
(* likes: answers to the requests it was sent, also a second time, exception *)
(* responses, and responses nobody asked for.  marks lists the frames the    *)
(* peer wrote, stream their bytes.                                           *)

MaxPeerFrames == 2

\* the requests the application executes in this scenario
MaxPeerRequests == 2

\* a transaction id the client does not hand out
UnrequestedTid == MaxRequests + 1

\* the frames the peer may write: for a request it was sent, a response or an
\* exception response under the request's tid, the latter also for function
\* code 0 (0x80 on the wire); and a response under a tid nobody asked for
PeerFrames ==
    UNION { AsyncReplies(written[i].request)
            \cup { [ExceptionResponse(0, 1)
                    EXCEPT !.unit_id = written[i].request.unit_id,
                           !.transaction_id = written[i].request.transaction_id] }
            : i \in { j \in 1..Len(written) : written[j].sent } }
    \cup { [ReadBitsResponse(1, UnpackByte(205))
            EXCEPT !.unit_id = 1, !.transaction_id = UnrequestedTid] }

PeerInit == AsyncInit /\ framer.kind = "tcp"

\* execute(request), up to MaxPeerRequests times
PeerExecute == tid < MaxPeerRequests /\ AsyncExecute

\* the peer writes one frame
PeerWrites ==
    /\ transport = "open"
    /\ Len(marks) < MaxPeerFrames
    /\ \E frame \in PeerFrames :
          /\ wire' = wire \o build_packet(framer, frame)
          /\ stream' = stream \o build_packet(framer, frame)
          /\ marks' = Append(marks, [end |-> Len(stream) + Len(build_packet(framer, frame)),
                                     pdu |-> frame])
    /\ UNCHANGED <<framer, transactions, tid, manager, connected, transport, handles,
                   written, raised, pdu, pos, delivered, last, syncVars, serverVars>>

\* _handle_response(None)
PeerHandleNone ==
    /\ last.op # "_handle_response"
    /\ AsyncHandled(_handle_response(manager,
            [transactions |-> transactions, handles |-> handles, exc |-> ""], NoMessage))
    /\ raised' = ""
    /\ last' = [op |-> "_handle_response", reply |-> NoMessage,
                before |-> [transactions |-> transactions, handles |-> handles]]
    /\ UNCHANGED <<framer, tid, connected, transport, written, wire, asyncRest>>

PeerNext ==
    \/ AsyncConnectionMade
    \/ PeerExecute
    \/ PeerWrites
    \/ AsyncDataReceived
    \/ PeerHandleNone
    \/ AsyncConnectionLost

SpecPeer == PeerInit /\ [][PeerNext]_vars

\* the responses the peer wrote under transaction id t, in the order written
PeerFramesFor(t) == SelectSeq(marks, LAMBDA m : m.pdu.transaction_id = t)

\* the handle of a request has been called back with the exception response e
ResolvedWith(h, e) ==
    /\ h.state = "callback"
    /\ h.fired = 1
    /\ h.reply.cls = "ExceptionResponse"
    /\ h.reply.function_code = e.function_code
    /\ h.reply.exception_code = e.exception_code

\* C24: in the asynchronous client a response frame whose function code has the
\* high bit set is never raised as an error by the framer or the decoder and
\* never fails a handle: once its bytes are received it is handed on as an
\* ExceptionResponse carrying the exception code, and the pending handle of its
\* transaction id is called back with it.
C24_ExceptionResolvesHandle ==
    transport = "open" =>
        /\ raised # "ModbusIOException"
        /\ \A i \in 1..Len(handles) : handles[i].state # "errback"
        /\ \A i \in 1..Len(handles) :
              (/\ PeerFramesFor(handles[i].tid) # <<>>
               /\ Head(PeerFramesFor(handles[i].tid)).pdu.function_code >= 128
               /\ Head(PeerFramesFor(handles[i].tid)).end <= Len(stream) - Len(wire))
              => ResolvedWith(handles[i], Head(PeerFramesFor(handles[i].tid)).pdu)

\* the same as long as the peer has written no frame with function code 0x80
C24_Above0x80 ==
    (\A k \in 1..Len(marks) : marks[k].pdu.function_code # 128)
        => C24_ExceptionResolvesHandle

\* an exception response with function code 0x81 has resolved the second of two
\* pending handles through callback
C24_Resolved0x81 ==
    /\ transport = "open" /\ Len(handles) = 2
    /\ handles[1].state = "pending"
    /\ ResolvedWith(handles[2], ExceptionResponse(1, 4))
    /\ handles[2].reply.transaction_id = 2

\* a step that is one call of data_received
DataReceivedStep == transport = "open" /\ transport' = "open" /\ Len(wire') < Len(wire)

\* the replies a step handed to _handle_response
NewReplies == SubSeq(delivered', Len(delivered) + 1, Len(delivered'))

\* C26: with the keyed manager, a None reply changes neither the table nor any
\* handle, and a call of data_received changes only the handles that were
\* pending under the transaction id of a reply it decoded and removes only
\* their entries from the table: a reply whose tid has no pending handle,
\* because none was ever stored under it or because it was answered already,
\* resolves nothing and leaves the table and every pending handle as they were.
C26_IgnoredReplies ==
    [][ /\ (last' # last /\ last'.op = "_handle_response") =>
              (transactions' = transactions /\ handles' = handles)
        /\ DataReceivedStep =>
              /\ Len(handles') = Len(handles)
              /\ \A i \in 1..Len(handles) :
                    handles'[i] # handles[i] =>
                        /\ handles[i].state = "pending"
                        /\ handles[i].tid \in DOMAIN transactions
                        /\ \E k \in 1..Len(NewReplies) :
                              NewReplies[k].transaction_id = handles[i].tid
              /\ DOMAIN transactions' \subseteq DOMAIN transactions
              /\ \A t \in DOMAIN transactions' : transactions'[t] = transactions[t]
              /\ \A t \in DOMAIN transactions \ DOMAIN transactions' :
                    \E k \in 1..Len(NewReplies) : NewReplies[k].transaction_id = t
      ]_vars

\* C26 witness: the peer answered the first of two requests twice, with a
\* response and then with an exception response; both were received, the first
\* handle holds the response, the second is pending and alone in the table
C26_Witness ==
    /\ Len(handles) = 2 /\ Len(delivered) = 2
    /\ delivered[1].transaction_id = 1 /\ delivered[2].transaction_id = 1
    /\ delivered[1] # delivered[2]
    /\ handles[1].state = "callback" /\ handles[1].fired = 1
    /\ handles[1].reply = delivered[1]
    /\ handles[2].state = "pending"
    /\ DOMAIN transactions = {2}

\* a response under a tid nobody asked for was received while a handle was
\* pending, which it still is
C26_Unrequested ==
    /\ Len(delivered) = 1 /\ delivered[1].transaction_id = UnrequestedTid
    /\ Len(handles) = 1 /\ handles[1].state = "pending"
    /\ DOMAIN transactions = {handles[1].tid}

\* _handle_response(None) was called while a handle was pending
C26_NoneReply ==
    /\ last.op = "_handle_response" /\ last.reply = NoMessage
    /\ Len(handles) = 1 /\ handles[1].state = "pending"
    /\ transactions = last.before.transactions /\ transactions # NewTable

\* the chunk that call was given
ReceivedChunk == SubSeq(wire, 1, Len(wire) - Len(wire'))

\* the bytes of the stream the framer f has dropped from its buffer, with w
\* still on the wire
Consumed(f, w) == Len(stream) - Len(w) - Len(f.buffer)

\* the buffer of f begins with a complete frame that passes check_frame and
\* that the decoder answers with None
Undecodable(f) ==
    /\ is_frame_ready(f)
    /\ check_frame(f).exc = "" /\ check_frame(f).ret
    /\ ~get_frame(check_frame(f).framer).raised
    /\ decode(f.decoder, get_frame(check_frame(f).framer).v).status = "none"

\* the frames of the peer whose last byte lies in the stream after offset a and
\* up to offset b
FramesBetween(a, b) == SelectSeq(marks, LAMBDA m : a < m.end /\ m.end <= b)

\* C34: when the decoder returns no PDU for a frame that passed check_frame,
\* process_incoming_packet raises ModbusIOException, does not invoke the
\* callback for that frame and leaves the frame in the buffer un-advanced, the
\* frames before it in the same call being delivered and dropped as usual;
\* and as long as nobody resets the framer every later call meets the same
\* frame again: it raises again, delivers nothing and only appends its bytes.
C34_UndecodableFrameStays ==
    [][ /\ (DataReceivedStep /\ raised' = "ModbusIOException") =>
              /\ Undecodable(framer')
              /\ framer'.buffer = PyFrom(framer.buffer \o ReceivedChunk,
                                         Consumed(framer', wire') - Consumed(framer, wire))
              /\ Len(NewReplies) = Len(FramesBetween(Consumed(framer, wire),
                                                     Consumed(framer', wire')))
              /\ \A k \in 1..Len(NewReplies) :
                    /\ NewReplies[k].transaction_id =
                         FramesBetween(Consumed(framer, wire),
                                       Consumed(framer', wire'))[k].pdu.transaction_id
                    /\ NewReplies[k].function_code # 128
        /\ (DataReceivedStep /\ Undecodable(framer)) =>
              /\ raised' = "ModbusIOException"
              /\ framer'.buffer = framer.buffer \o ReceivedChunk
              /\ framer'.header = check_frame(framer).framer.header
              /\ delivered' = delivered
              /\ handles' = handles /\ transactions' = transactions
      ]_vars

\* C34 witness: one call of data_received delivered the response to the first
\* request and then raised on the frame with function code 0x80 that followed
\* it, which is still at the head of the buffer
C34_Witness ==
    /\ raised = "ModbusIOException" /\ last.op = "data_received"
    /\ Len(marks) = 2 /\ marks[2].pdu.function_code = 128
    /\ Len(delivered) = 1 /\ delivered[1].transaction_id = marks[1].pdu.transaction_id
    /\ handles[1].state = "callback"
    /\ Undecodable(framer)
    /\ wire = <<>>
    /\ framer.buffer = PyFrom(stream, marks[1].end)

\* the same frame met by a later call: the buffer holds the undecodable frame
\* and bytes of the frame written after it, and nothing was delivered
C34_MetAgain ==
    /\ raised = "ModbusIOException" /\ last.op = "data_received"
    /\ Len(marks) = 2 /\ marks[1].pdu.function_code = 128
    /\ delivered = <<>>
    /\ Undecodable(framer)
    /\ Len(framer.buffer) > marks[1].end

-----------------------------------------------------------------------------
(* Scenario: a ModbusClientProtocol over TCP whose transaction id counter is *)
(* about to wrap.  One request was executed 65535 or 65534 executes ago,     *)
(* under tid 0 or 1, and never answered; the requests executed since were    *)
(* all answered, and the counter has come round to 65535.  The application   *)
(* executes up to MaxWrapRequests more requests, the peer answers requests   *)
(* it was sent, the old one included, and the connection may be lost.        *)

MaxWrapRequests == 2

\* the tid of the request that was never answered
FirstTids == {0, 1}

\* the counter when the scenario starts: the last tid before the wrap
LastTid == 65536 - 1

WrapInit ==
    /\ framer = NewFramer("tcp", "client")
    /\ manager = ManagerFor("tcp")
    /\ \E first \in FirstTids, r \in AsyncRequests :
          /\ transactions = add_transaction(manager, NewTable, Deferred(1), first)
          /\ handles = << [tid |-> first, state |-> "pending", reply |-> NoMessage,
                           fired |-> 0] >>
          /\ written = << [request |-> [r EXCEPT !.transaction_id = first],
                           sent |-> TRUE, answer |-> NoMessage] >>
    /\ tid = LastTid
    /\ connected = TRUE
    /\ transport = "open"
    /\ wire = <<>>
    /\ raised = ""
    /\ last = [op |-> "none"]
    /\ delivered = <<>>
    /\ StreamIdle /\ SyncIdle /\ ServerIdle

\* execute(request), up to MaxWrapRequests times
WrapExecute == Len(handles) <= MaxWrapRequests /\ AsyncExecuted

WrapNext ==
    \/ WrapExecute
    \/ AsyncServerReply
    \/ AsyncDataReceived
    \/ AsyncConnectionLost

SpecWrap == WrapInit /\ [][WrapNext]_vars

\* a step that is one call of execute; when connected, _build_response calls
\* add_transaction
ExecuteStep == Len(handles') = Len(handles) + 1

\* handle i is pending and no entry of the table refers to it
Orphaned(hs, table, i) ==
    /\ hs[i].state = "pending"
    /\ \A t \in DOMAIN table : table[t].id # i

\* C39: in the keyed manager, add_transaction under a tid that is already
\* pending replaces the earlier handle without notifying it and without
\* growing the table; so when the tid counter wraps around while the earlier
\* request is still pending, the earlier handle is never resolved: no response
\* and no connection_lost changes it from then on.
C39_WrapReplacesHandle ==
    [][ /\ (ExecuteStep /\ connected /\ tid' \in DOMAIN transactions) =>
              /\ DOMAIN transactions' = DOMAIN transactions
              /\ transactions'[tid'] = Deferred(Len(handles'))
              /\ \A t \in DOMAIN transactions \ {tid'} : transactions'[t] = transactions[t]
              /\ \A i \in 1..Len(handles) : handles'[i] = handles[i]
              /\ Orphaned(handles', transactions', transactions[tid'].id)
        /\ \A i \in 1..Len(handles) :
              Orphaned(handles, transactions, i) =>
                  /\ handles'[i] = handles[i]
                  /\ Orphaned(handles', transactions', i)
      ]_vars

\* C39 witness: the counter has wrapped from 65535 to 0 and reached the tid of
\* the old request again; the peer has then answered under that tid and the
\* response has been handed to the newer handle, while the old one is pending
\* and out of the table
C39_Witness ==
    /\ Len(handles) >= 3
    /\ \E j \in 2..Len(handles) : handles[j].tid = 0
    /\ \E k \in 2..Len(handles) :
          /\ handles[k].tid = handles[1].tid
          /\ handles[k].state = "callback"
    /\ Orphaned(handles, transactions, 1)

\* the connection was lost after the old handle had been replaced: it is
\* still pending
C39_LostAfterWrap ==
    /\ transport = "closed"
    /\ \E k \in 2..Len(handles) : handles[k].tid = handles[1].tid
    /\ Orphaned(handles, transactions, 1)

-----------------------------------------------------------------------------
(* Scenario: the FIFO transaction manager, called directly (the operations   *)
(* of the manager scenario) or used by a ModbusClientProtocol whose framer   *)
(* is not the TCP framer (the client scenario).                              *)

FifoInit ==
    \/ TableInit /\ manager = "fifo"
    \/ AsyncInit /\ framer.kind # "tcp"

FifoNext ==
    \/ FramerIdle /\ TableAdd
    \/ FramerIdle /\ TableGet
    \/ FramerIdle /\ TableDel
    \/ FramerIdle /\ TableNextTid
    \/ FramerIdle /\ TableReset
    \/ ~FramerIdle /\ AsyncConnectionMade
    \/ ~FramerIdle /\ AsyncExecute
    \/ ~FramerIdle /\ AsyncServerReply
    \/ ~FramerIdle /\ AsyncDataReceived
    \/ ~FramerIdle /\ AsyncConnectionLost

SpecFifo == FifoInit /\ [][FifoNext]_vars

\* C18: for the FIFO transaction manager, add_transaction appends and
\* get_transaction(tid) returns and removes the oldest entry still present,
\* whatever tid is supplied, and returns None when the table is empty; so in a
\* client with a non-TCP framer the i-th decoded response resolves the i-th
\* dispatched request: it is called back once, with that response.
C18_FifoOldestFirst ==
    /\ (FramerIdle /\ last.op = "add") =>
          transactions = Append(last.before, last.entry)
    /\ (FramerIdle /\ last.op = "get") =>
          IF last.before = <<>>
          THEN last.ret = NoMessage /\ transactions = <<>>
          ELSE last.ret = Head(last.before) /\ transactions = Tail(last.before)
    /\ ~FramerIdle =>
          /\ Len(delivered) <= Len(handles)
          /\ \A i \in 1..Len(handles) :
                IF i <= Len(delivered)
                THEN /\ handles[i].state = "callback"
                     /\ handles[i].fired = 1
                     /\ handles[i].reply = delivered[i]
                ELSE handles[i].state # "callback"

\* C18 witness: get_transaction was called with a tid that is not the oldest
\* entry's and returned the oldest entry, leaving a newer one in the table
C18_Witness ==
    /\ FramerIdle /\ manager = "fifo" /\ last.op = "get"
    /\ Len(last.before) = 2
    /\ last.ret = Head(last.before)
    /\ last.ret.transaction_id # last.tid
    /\ last.before[2].transaction_id = last.tid

\* in the client, the first response to arrive answered the second request and
\* resolved the first
C18_ClientOutOfOrder ==
    /\ ~FramerIdle /\ Len(handles) >= 2
    /\ handles[1].state = "callback" /\ handles[1].reply.cls = "ExceptionResponse"
    /\ written[1].answer.cls = "ReadBitsResponse"
-----------------------------------------------------------------------------
(* Scenario: one synchronous client.  The application calls execute up to    *)
(* MaxExecutes times; connect, send and receive may each fail with           *)
(* socket.error; the peer answers a request that was sent with a valid       *)
(* response, an exception response, a response carrying the next             *)
(* transaction id, or not at all; and receive(size) returns between 0 and    *)
(* size of the bytes in flight.  Bytes in flight stay in flight until they   *)
(* are received or the transport is closed.                                  *)

MaxExecutes == 2

MaxRetries == 3

SyncRequests == { [ReadBitsRequest(2, 123, 125) EXCEPT !.unit_id = 247] }

Scripts == {"valid", "exception", "other_tid", "silent"}

\* the response the peer gives under a script (None when it stays silent)
ScriptReply(script, request) ==
    IF script = "silent" THEN NoMessage
    ELSE [(IF script = "exception"
           THEN ExceptionResponse(request.function_code, 4)
           ELSE ReadBitsResponse(request.function_code, UnpackByte(205)))
            EXCEPT !.unit_id = request.unit_id,
                   !.transaction_id = IF script = "other_tid"
                                      THEN get_next_tid(request.transaction_id)
                                      ELSE request.transaction_id]

ScriptBytes(f, reply) == IF reply = NoMessage THEN <<>> ELSE build_packet(f, reply)

\* what client.receive(size) may do: return up to size of the bytes in flight
\* (none of them on a timeout), or raise socket.error; a negative size is
\* rejected with ValueError by a socket and read as nothing by a serial port
ReceiveOutcomes(size) ==
    { [kind |-> "data", n |-> n] : n \in 0..Min(size, Len(client.inbox)) }
    \cup { [kind |-> "socket.error", n |-> 0] }
    \cup (IF size < 0 THEN { [kind |-> "data", n |-> 0], [kind |-> "ValueError", n |-> 0] }
          ELSE {})

\* add_transaction called back once for every decoded result
RECURSIVE add_all(_, _, _)
add_all(m, table, results) ==
    IF results = <<>> THEN table
    ELSE add_all(m, add_transaction(m, table, Head(results), NoTid), Tail(results))

SyncInit ==
    /\ \E kind \in FramerKinds, n \in 1..MaxRetries, roe \in BOOLEAN :
          /\ framer = NewFramer(kind, "client")
          /\ manager = ManagerFor(kind)
          /\ sync = [pc |-> "idle", state |-> "None", retries |-> 0, fretries |-> 0,
                     request |-> NoMessage, N |-> n, retry_on_empty |-> roe,
                     executes |-> 0, attempts |-> 0, how |-> "", clean |-> TRUE,
                     fresh |-> TRUE, script |-> "", reply |-> NoMessage,
                     split |-> FALSE, result |-> NoMessage]
    /\ transactions = NewTable
    /\ tid = 0
    /\ client = [sends |-> 0, closes |-> 0, open |-> FALSE, inbox |-> <<>>]
    /\ raised = ""
    /\ last = [op |-> "none"]
    /\ delivered = <<>>
    /\ StreamIdle /\ AsyncIdle /\ ServerIdle

syncRest == <<manager, delivered, streamVars, asyncVars, serverVars>>

\* execute(request), up to the first test of its while loop
SyncExecute ==
    /\ sync.pc = "idle"
    /\ sync.executes < MaxExecutes
    /\ \E r \in SyncRequests :
          sync' = [sync EXCEPT !.pc = "loop", !.retries = sync.N,
                               !.request = [r EXCEPT !.transaction_id = get_next_tid(tid)],
                               !.executes = @ + 1, !.attempts = 0, !.how = "",
                               !.clean = TRUE, !.fresh = TRUE, !.script = "",
                               !.reply = NoMessage, !.split = FALSE,
                               !.result = NoMessage]
    /\ tid' = get_next_tid(tid)
    /\ client' = [client EXCEPT !.sends = 0, !.closes = 0]
    /\ raised' = ""
    /\ last' = [op |-> "execute"]
    /\ UNCHANGED <<framer, transactions, syncRest>>

\* an attempt whose connect() raises socket.error, if the except clause did
\* not count it
SyncConnectFailsUncounted ==
    /\ sync.pc = "loop" /\ sync.retries > 0
    /\ sync' = [sync EXCEPT !.state = "Initializing", !.attempts = @ + 1]
    /\ client' = [client EXCEPT !.closes = @ + 1,
                                !.open = FALSE, !.inbox = <<>>]
    /\ last' = [op |-> "connect", outcome |-> "socket.error"]
    /\ UNCHANGED <<framer, transactions, tid, raised, syncRest>>

\* an attempt whose connect() raises socket.error: close(), retries -= 1
SyncConnectFails ==
    /\ sync.pc = "loop" /\ sync.retries > 0
    /\ sync' = [sync EXCEPT !.state = "Initializing", !.retries = @ - 1,
                            !.attempts = @ + 1]
    /\ client' = [client EXCEPT !.closes = @ + 1,
                                !.open = FALSE, !.inbox = <<>>]
    /\ last' = [op |-> "connect", outcome |-> "socket.error"]
    /\ UNCHANGED <<framer, transactions, tid, raised, syncRest>>

\* an attempt whose send() raises socket.error: close(), retries -= 1
SyncSendFails ==
    /\ sync.pc = "loop" /\ sync.retries > 0
    /\ sync' = [sync EXCEPT !.state = "Initializing", !.retries = @ - 1,
                            !.attempts = @ + 1]
    /\ client' = [client EXCEPT !.sends = @ + 1, !.closes = @ + 1,
                                !.open = FALSE, !.inbox = <<>>]
    /\ last' = [op |-> "send", outcome |-> "socket.error"]
    /\ UNCHANGED <<framer, transactions, tid, raised, syncRest>>

\* the state after the request was sent and the peer answered with reply
SyncSent(script, reply) ==
    /\ sync' = [sync EXCEPT !.pc = "framing", !.state = "Initializing",
                            !.fretries = sync.N, !.attempts = @ + 1,
                            !.clean = TRUE, !.fresh = (client.inbox = <<>>),
                            !.script = script, !.reply = reply, !.split = FALSE]
    /\ client' = [client EXCEPT !.sends = @ + 1, !.open = TRUE,
                                !.inbox = @ \o ScriptBytes(framer, reply)]

\* an attempt whose connect() and send() succeed: handle_message_framing begins
SyncSend ==
    /\ sync.pc = "loop" /\ sync.retries > 0
    /\ \E script \in Scripts :
          /\ script = "other_tid" => framer.kind = "tcp"
          /\ SyncSent(script, ScriptReply(script, sync.request))
    /\ last' = [op |-> "send", outcome |-> "sent"]
    /\ UNCHANGED <<framer, transactions, tid, raised, syncRest>>

\* execute ends: it returns g.ret when exc is "", raises exc otherwise; its
\* local retry counters are gone
SyncEnd(how, exc, g, f) ==
    /\ sync' = [sync EXCEPT !.pc = "idle", !.how = how, !.result = g.ret,
                            !.retries = 0, !.fretries = 0]
    /\ raised' = exc
    /\ transactions' = g.transactions
    /\ framer' = f

\* the while loop of execute is left with no retries:
\* return self.get_transaction(request.transaction_id)
SyncExhausted ==
    /\ sync.pc = "loop" /\ sync.retries <= 0
    /\ SyncEnd("exhausted", "",
               get_transaction(manager, transactions, sync.request.transaction_id), framer)
    /\ UNCHANGED <<tid, client, last, syncRest>>

\* the same exit if it called reset_frame as the ErrorInFrame branch does
SyncGiveUpResetting ==
    /\ sync.pc = "framing" /\ sync.fretries <= 0
    /\ SyncEnd("gave_up", "ModbusIOException",
               [ret |-> NoMessage, transactions |-> transactions], reset_frame(framer))
    /\ UNCHANGED <<tid, client, last, syncRest>>

\* the while loop of handle_message_framing is left with no retries: it returns
\* False and execute raises ModbusIOException, which is no socket.error
SyncGiveUp ==
    /\ sync.pc = "framing" /\ sync.fretries <= 0
    /\ SyncEnd("gave_up", "ModbusIOException",
               [ret |-> NoMessage, transactions |-> transactions], framer)
    /\ UNCHANGED <<tid, client, last, syncRest>>

\* FramerState.Initializing
SyncInitializing ==
    /\ sync.pc = "framing" /\ sync.fretries > 0 /\ sync.state = "Initializing"
    /\ framer' = advance_frame(framer)
    /\ sync' = [sync EXCEPT !.state = "ReadingHeader"]
    /\ UNCHANGED <<transactions, tid, raised, client, last, syncRest>>

\* the state variable after a reading state's iteration: an empty result costs
\* a retry or sets ErrorInFrame, and size <= 0 then sets the next state
SyncReadState(size, received, data, next) ==
    [sync EXCEPT
        !.state = IF size - Len(data) <= 0 THEN next
                  ELSE IF received /\ data = <<>> /\ ~sync.retry_on_empty
                       THEN "ErrorInFrame" ELSE @,
        !.fretries = IF received /\ data = <<>> /\ sync.retry_on_empty THEN @ - 1 ELSE @,
        !.clean = @ /\ ~(received /\ data = <<>>),
        !.split = @ \/ (data # <<>> /\ Len(data) < size)]

\* ReadingHeader with the header complete: check_frame() returned c
SyncHeaderChecked(s, c) ==
    IF c.exc # ""
    THEN SyncEnd("raised", c.exc, [ret |-> NoMessage, transactions |-> transactions],
                 c.framer)
    ELSE /\ framer' = c.framer
         /\ sync' = s
         /\ UNCHANGED <<raised, transactions>>

\* the rest of a reading state's iteration once receive returned data
\* (received is FALSE when size was 0 and receive was not called)
SyncAfterRead(size, received, data, next) ==
    /\ client' = [client EXCEPT !.inbox = PyFrom(@, Len(data))]
    /\ IF size - Len(data) <= 0 /\ next = "ReadingContent"
       THEN SyncHeaderChecked(SyncReadState(size, received, data, next),
                              check_frame(add_to_frame(framer, data)))
       ELSE /\ framer' = add_to_frame(framer, data)
            /\ sync' = SyncReadState(size, received, data, next)
            /\ UNCHANGED <<raised, transactions>>

\* one iteration of FramerState.ReadingHeader or ReadingContent, which wants
\* size more bytes
SyncReading(size, next) ==
    IF size = 0
    THEN /\ SyncAfterRead(size, FALSE, <<>>, next)
         /\ UNCHANGED last
    ELSE \E o \in ReceiveOutcomes(size) :
            /\ last' = [op |-> "receive", state |-> sync.state, size |-> size,
                        buffered |-> Len(framer.buffer),
                        got |-> IF o.kind = "data" THEN o.n ELSE -1]
            /\ IF o.kind = "socket.error"
               THEN /\ sync' = [sync EXCEPT !.pc = "loop", !.retries = @ - 1,
                                            !.fretries = 0]
                    /\ client' = [client EXCEPT !.closes = @ + 1, !.open = FALSE,
                                                !.inbox = <<>>]
                    /\ UNCHANGED <<framer, raised, transactions>>
               ELSE IF o.kind = "ValueError"
               THEN /\ SyncEnd("raised", "ValueError",
                               [ret |-> NoMessage, transactions |-> transactions], framer)
                    /\ UNCHANGED client
               ELSE SyncAfterRead(size, TRUE, PySlice(client.inbox, 0, o.n), next)

\* FramerState.ReadingHeader
SyncReadingHeader ==
    /\ sync.pc = "framing" /\ sync.fretries > 0 /\ sync.state = "ReadingHeader"
    /\ SyncReading(header_size(framer) - Len(framer.buffer), "ReadingContent")
    /\ UNCHANGED <<tid, syncRest>>

\* FramerState.ReadingContent
SyncReadingContent ==
    /\ sync.pc = "framing" /\ sync.fretries > 0 /\ sync.state = "ReadingContent"
    /\ SyncReading(get_frame_size(framer) - Len(framer.buffer), "CompleteFrame")
    /\ UNCHANGED <<tid, syncRest>>

\* the state after process_incoming_packet('', self.add_transaction) returned r:
\* an exception leaves execute, otherwise handle_message_framing returns True
\* and execute returns self.get_transaction(request.transaction_id)
SyncCompleted(r, table) ==
    /\ IF r.exc # ""
       THEN SyncEnd("raised", r.exc, [ret |-> NoMessage, transactions |-> table], r.framer)
       ELSE SyncEnd("returned", "",
                    get_transaction(manager, table, sync.request.transaction_id), r.framer)
    /\ last' = [op |-> "process_incoming_packet", exc |-> r.exc,
                called |-> Len(r.results)]

SyncProcessed(r) == SyncCompleted(r, add_all(manager, transactions, r.results))

\* FramerState.CompleteFrame
SyncCompleteFrame ==
    /\ sync.pc = "framing" /\ sync.fretries > 0 /\ sync.state = "CompleteFrame"
    /\ SyncProcessed(process_incoming_packet(framer, <<>>))
    /\ UNCHANGED <<tid, client, syncRest>>

\* FramerState.ErrorInFrame: reset_frame(), return False, and execute raises
\* ModbusIOException
SyncErrorInFrame ==
    /\ sync.pc = "framing" /\ sync.fretries > 0 /\ sync.state = "ErrorInFrame"
    /\ SyncEnd("error_in_frame", "ModbusIOException",
               [ret |-> NoMessage, transactions |-> transactions], reset_frame(framer))
    /\ UNCHANGED <<tid, client, last, syncRest>>

SyncNext ==
    \/ SyncExecute
    \/ SyncConnectFails
    \/ SyncSendFails
    \/ SyncSend
    \/ SyncExhausted
    \/ SyncGiveUp
    \/ SyncInitializing
    \/ SyncReadingHeader
    \/ SyncReadingContent
    \/ SyncCompleteFrame
    \/ SyncErrorInFrame

SpecSync == SyncInit /\ [][SyncNext]_vars

\* the current attempt sent the request over a transport with no bytes in
\* flight, was answered with one valid response frame carrying the request's
\* transaction id, and every receive so far returned at least one byte
OneValidFrame ==
    /\ sync.script \in {"valid", "exception"}
    /\ sync.fresh /\ sync.clean

\* the last execute ended in such an attempt
OneValidFrameDelivered ==
    /\ sync.pc = "idle" /\ sync.how \notin {"", "exhausted"}
    /\ OneValidFrame

\* C4: over the TCP framer and the keyed manager, every read in ReadingHeader
\* requests header_size minus the bytes buffered and the first read of an
\* attempt is such a read; when one valid response frame with the request's tid
\* is delivered in non-empty reads, every read in ReadingContent requests the
\* frame's size minus the bytes buffered, and execute returns the decoded
\* response, which carries the request's tid, with the framer's buffer empty.
C4_TcpExecuteReturnsResponse ==
    (framer.kind = "tcp" /\ manager = "dict") =>
        /\ (last.op = "receive" /\ last.state = "ReadingHeader") =>
              last.size = header_size(framer) - last.buffered
        /\ (last.op = "receive" /\ last.buffered = 0 /\ OneValidFrame) =>
              last.state = "ReadingHeader"
        /\ (last.op = "receive" /\ last.state = "ReadingContent" /\ OneValidFrame) =>
              last.size = Len(ScriptBytes(framer, sync.reply)) - last.buffered
        /\ OneValidFrameDelivered =>
              /\ sync.how = "returned"
              /\ raised = ""
              /\ sync.result = Decoded(sync.reply)
              /\ sync.result.transaction_id = sync.request.transaction_id
              /\ framer.buffer = <<>>
              /\ client.inbox = <<>>

\* C4 witness: a TCP execute returned its response after a read returned fewer
\* bytes than were requested
C4_Witness ==
    /\ framer.kind = "tcp" /\ manager = "dict" /\ OneValidFrameDelivered
    /\ sync.how = "returned" /\ sync.result.cls = "ReadBitsResponse"
    /\ last.op = "process_incoming_packet" /\ last.called = 1
    /\ sync.split

\* C5: over a serial framer and the FIFO manager, when one valid response frame
\* is delivered in non-empty reads, the whole frame has been read when execute
\* ends and execute returns the decoded response.
C5_SerialExecuteReturnsResponse ==
    (framer.kind # "tcp" /\ manager = "fifo" /\ OneValidFrameDelivered) =>
        /\ sync.how = "returned"
        /\ raised = ""
        /\ client.inbox = <<>>
        /\ sync.result = Restored(framer.kind, sync.reply)

\* C6: when execute ends because every attempt failed with socket.error, it made
\* exactly N attempts, closed the transport after each, sent the request at most
\* N times, and returns None.
C6_SocketErrorsExhaustRetries ==
    (sync.pc = "idle" /\ sync.how = "exhausted") =>
        /\ sync.attempts = sync.N
        /\ client.closes = sync.N
        /\ client.sends <= sync.N
        /\ raised = ""
        /\ sync.result = NoMessage

\* C7: an execute that ends without a decoded response, because its retries are
\* exhausted, the framing state machine gave up or entered ErrorInFrame, returns
\* None and raises nothing.
C7_ReturnsNoneNotRaise ==
    (sync.pc = "idle" /\ sync.how \in {"exhausted", "gave_up", "error_in_frame"}) =>
        /\ raised = ""
        /\ sync.result = NoMessage


\* the last execute returned to its caller (it did not raise)
ExecuteReturned == sync.pc = "idle" /\ sync.how \in {"returned", "exhausted"}

\* C17: with the keyed manager in synchronous mode the transaction table never
\* holds more entries than there are requests in flight: whenever execute has
\* returned the table is empty, whatever response frame the transport delivered,
\* a valid frame with another transaction id included.
C17_TableEmptyAfterExecute ==
    (manager = "dict" /\ ExecuteReturned) => transactions = NewTable

\* C17 when the response carries the request's transaction id and the transport
\* had no bytes in flight when the request was sent
C17_MatchingTid ==
    (manager = "dict" /\ ExecuteReturned /\ sync.how = "returned"
       /\ sync.script # "other_tid" /\ sync.fresh /\ sync.executes = 1)
    => transactions = NewTable

\* the bytes the reading state the machine is in asks receive for
ReadSize ==
    IF sync.state = "ReadingHeader" THEN header_size(framer) - Len(framer.buffer)
    ELSE get_frame_size(framer) - Len(framer.buffer)

\* this step is an iteration of ReadingHeader or ReadingContent whose receive
\* returned nothing
EmptyRead ==
    /\ sync.pc = "framing" /\ sync.fretries > 0
    /\ sync.state \in {"ReadingHeader", "ReadingContent"}
    /\ ReadSize # 0
    /\ last'.op = "receive" /\ last'.got = 0

\* this step is the iteration of ErrorInFrame: reset_frame, return False
ErrorInFrameStep ==
    /\ sync'.pc = "idle" /\ sync'.how = "error_in_frame"
    /\ framer' = reset_frame(framer)
    /\ transactions' = transactions
    /\ client' = client

\* C32: with retry_on_empty disabled an empty read in ReadingHeader or
\* ReadingContent puts the machine in ErrorInFrame, and the iteration after it
\* calls reset_frame and returns failure, with no further read and without
\* process_incoming_packet; with retry_on_empty enabled an empty read takes one
\* from the retry budget and leaves the state as it is.
C32_EmptyReadPolicy ==
    [][ /\ (EmptyRead /\ ~sync.retry_on_empty) =>
              (sync'.pc = "framing" /\ sync'.state = "ErrorInFrame")
        /\ (sync.pc = "framing" /\ sync.fretries > 0 /\ sync.state = "ErrorInFrame") =>
              ErrorInFrameStep
        /\ (EmptyRead /\ sync.retry_on_empty) =>
              /\ sync'.pc = "framing"
              /\ sync'.fretries = sync.fretries - 1
              /\ sync'.state = sync.state
      ]_vars

\* the same for the reads that ask for at least one byte
C32_PositiveSize ==
    [][ /\ (EmptyRead /\ ReadSize > 0 /\ ~sync.retry_on_empty) =>
              (sync'.pc = "framing" /\ sync'.state = "ErrorInFrame")
        /\ (sync.pc = "framing" /\ sync.fretries > 0 /\ sync.state = "ErrorInFrame") =>
              ErrorInFrameStep
        /\ (EmptyRead /\ ReadSize > 0 /\ sync.retry_on_empty) =>
              /\ sync'.pc = "framing"
              /\ sync'.fretries = sync.fretries - 1
              /\ sync'.state = sync.state
      ]_vars

\* an empty read put the machine in ErrorInFrame, and the call ended with
\* reset_frame and failure
C32_ErrorInFrameReached ==
    /\ sync.pc = "idle" /\ sync.how = "error_in_frame" /\ ~sync.retry_on_empty
    /\ last.op = "receive" /\ last.got = 0 /\ last.size > 0
    /\ framer.buffer = <<>>

\* a read that asked for a negative number of bytes returned nothing with
\* retry_on_empty disabled, and the machine went on to ReadingContent
C32_NegativeSizeGoesOn ==
    /\ sync.pc = "framing" /\ ~sync.retry_on_empty
    /\ last.op = "receive" /\ last.got = 0 /\ last.size < 0
    /\ last.state = "ReadingHeader" /\ sync.state = "ReadingContent"

\* handle_message_framing returned True in the call that just ended
FramingSucceeded == sync.pc = "idle" /\ sync.how = "returned"

\* C33: handle_message_framing returns success only when, in that call, a
\* complete validated frame was decoded and committed through add_transaction;
\* it never reports success with nothing committed.
C33_SuccessMeansCommitted ==
    FramingSucceeded =>
        /\ last.op = "process_incoming_packet"
        /\ last.called >= 1

\* a success that did commit a frame
C33_Committed ==
    /\ FramingSucceeded
    /\ last.op = "process_incoming_packet" /\ last.called = 1
    /\ sync.result # NoMessage

\* a success of a call whose process_incoming_packet delivered nothing
C33_NothingCommitted ==
    /\ FramingSucceeded
    /\ last.op = "process_incoming_packet" /\ last.called = 0
    /\ sync.result = NoMessage

\* a step that is the Initializing iteration of handle_message_framing
InitializingStep ==
    /\ sync.pc = "framing" /\ sync.state = "Initializing"
    /\ sync'.pc = "framing" /\ sync'.state = "ReadingHeader"

\* C36: after the Initializing step of every synchronous execute attempt the
\* framer is in a newly consistent state, empty buffer and cleared header,
\* whatever a previous exchange left behind; no stale byte is taken for a
\* part of the new response.
C36_InitializingClearsFramer ==
    [][ InitializingStep =>
            /\ framer'.buffer = <<>>
            /\ framer'.header = NewFramer(framer.kind, "client").header ]_vars

\* the Initializing step of a second execute has left bytes of the first
\* exchange in the buffer, in front of the bytes of the new response
C36_StaleBytesKept ==
    /\ sync.pc = "framing" /\ sync.state = "ReadingHeader"
    /\ sync.executes = 2
    /\ framer.buffer # <<>>
    /\ last.op = "send" /\ last.outcome = "sent"

\* a step in which handle_message_framing leaves its loop with no retries left
GiveUpStep == sync.pc = "framing" /\ sync.fretries <= 0 /\ sync'.pc = "idle"

\* execute has ended because handle_message_framing gave up
GaveUp == sync.pc = "idle" /\ sync.how = "gave_up"

\* C38: when handle_message_framing gives up because empty reads used up the
\* retry budget (retry_on_empty enabled), it returns failure without calling
\* reset_frame: the bytes of the partially received frame and the populated
\* header are in the framer as they were, and still are when the next execute
\* starts.
C38_GiveUpKeepsFrame ==
    [][ /\ GiveUpStep =>
              /\ sync.retry_on_empty /\ ~sync.clean
              /\ sync'.how = "gave_up" /\ raised' = "ModbusIOException"
              /\ sync'.result = NoMessage
              /\ framer' = framer
        /\ GaveUp => framer' = framer ]_vars

\* C38 witness: execute has ended because handle_message_framing gave up on a
\* TCP response of which only the MBAP header had arrived: the seven bytes and
\* the header decoded from them are in the framer
C38_Witness ==
    /\ GaveUp /\ raised = "ModbusIOException"
    /\ sync.retry_on_empty
    /\ framer.kind = "tcp"
    /\ Len(framer.buffer) = header_size(framer)
    /\ framer.header.len > 0
    /\ framer.header.tid = sync.request.transaction_id

\* execute is running: in its while loop or inside handle_message_framing
Running == sync.pc \in {"loop", "framing"}

\* the states of the framing state machine in the order it passes them
StateRank ==
    IF sync.pc = "loop" THEN 5
    ELSE IF sync.state = "Initializing" THEN 4
    ELSE IF sync.state = "ReadingHeader" THEN 3
    ELSE IF sync.state = "ReadingContent" THEN 2
    ELSE 1

\* the bytes the current reading state still asks for
Wanted == IF Running /\ sync.pc = "framing"
             /\ sync.state \in {"ReadingHeader", "ReadingContent"} /\ ReadSize > 0
          THEN ReadSize ELSE 0

\* a step makes progress: the attempts left, the state of the machine, the
\* retries left for empty reads and the bytes asked for, compared in this
\* order, go down
Progress ==
    \/ sync'.retries < sync.retries
    \/ /\ sync'.retries = sync.retries
       /\ \/ StateRank' < StateRank
          \/ /\ StateRank' = StateRank
             /\ \/ sync'.fretries < sync.fretries
                \/ sync'.fretries = sync.fretries /\ Wanted' < Wanted

\* the loop of execute or of handle_message_framing has a branch to take:
\* the state machine is in one of the states its if/elif chain tests
BranchTaken ==
    (sync.pc = "framing" /\ sync.fretries > 0) =>
        sync.state \in {"Initializing", "ReadingHeader", "ReadingContent",
                        "CompleteFrame", "ErrorInFrame"}

\* C37: as long as every transport call returns or raises, a synchronous
\* execute terminates: the outer loop makes at most N attempts, and every step
\* of a running execute either ends it or makes progress in a measure that
\* cannot go down for ever, so that handle_message_framing performs finitely
\* many reads; a running execute always has a next step, and it ends by
\* returning or by raising.
C37_ExecuteTerminates ==
    /\ [](Running => /\ BranchTaken
                     /\ sync.retries \in 0..sync.N /\ sync.fretries \in 0..sync.N
                     /\ sync.attempts + sync.retries =
                           sync.N + (IF sync.pc = "framing" THEN 1 ELSE 0)
                     /\ sync.attempts <= sync.N)
    /\ [](sync.pc = "idle" => sync.how \in {"", "returned", "exhausted", "gave_up",
                                            "error_in_frame", "raised"})
    /\ [][ Running => (sync'.pc = "idle" \/ (Running' /\ Progress)) ]_vars

\* C37 witness: an execute has ended after the N = MaxRetries attempts allowed,
\* the last of which saw an empty read and a partial read before its
\* transport failed
C37_Witness ==
    /\ sync.pc = "idle" /\ sync.how = "exhausted"
    /\ sync.N = MaxRetries /\ sync.attempts = MaxRetries
    /\ ~sync.clean /\ sync.split

-----------------------------------------------------------------------------
(* Scenario: the decoders and the bit-read PDUs by themselves.  The one step *)
(* of a behaviour applies one of them to one input and leaves the input and  *)
(* what came back in last.                                                   *)

\* every bit list up to this length is encoded, and some longer ones
MaxBits == 4

\* every value a function code byte can have
CodecCodes == 0..255

\* the payload bytes after the function code
CodecBytes == {0, 1, 4, 255}

\* addresses and counts: the ends of the u16 range and values with distinct bytes
CodecWords == {0, 1, 255, 256, 4660, 65535}

\* the lengths of the longer bit lists: around a byte, around two, the most a
\* request may ask for, and around the most a one-byte count can announce
CodecLengths ==
    {7, 8, 9, 15, 16, 17, MaxReadBits, (255 * 8) - 1, 255 * 8, (255 * 8) + 1, 256 * 8}

CodecBitLists ==
    UNION { [1..n -> BOOLEAN] : n \in 0..MaxBits }
    \cup { [i \in 1..n |-> i % p = 0] : n \in CodecLengths, p \in {1, 2, 3} }

CodecPdus ==
    { ReadBitsRequest(fc, a, c) : fc \in BitReadCodes, a \in CodecWords, c \in CodecWords }
    \cup { ReadBitsResponse(fc, bits) : fc \in BitReadCodes, bits \in CodecBitLists }

CodecKinds == {"tcp", "rtu", "ascii", "binary"}

CodecInit ==
    /\ last = [op |-> "none"]
    /\ raised = ""
    /\ delivered = <<>>
    /\ FramerIdle /\ StreamIdle /\ TableIdle /\ AsyncIdle /\ SyncIdle /\ ServerIdle

codecRest == <<framer, raised, delivered, streamVars, tableVars, asyncVars, syncVars, serverVars>>

\* ClientDecoder().decode(message)
CodecClientDecode ==
    /\ last.op = "none"
    /\ \E code \in CodecCodes, b \in CodecBytes :
          last' = [op |-> "ClientDecoder.decode", message |-> <<code, b>>,
                   ret |-> ClientDecoder_decode(<<code, b>>)]
    /\ UNCHANGED codecRest

\* ServerDecoder().decode(message), and request.execute(context) on what it returned
CodecServerDecode ==
    /\ last.op = "none"
    /\ \E code \in CodecCodes, data \in {<<>>, <<0>>, <<0, 0, 0, 1>>} :
          last' = [op |-> "ServerDecoder.decode", message |-> <<code>> \o data,
                   ret |-> ServerDecoder_decode(<<code>> \o data),
                   answer |-> IF ServerDecoder_decode(<<code>> \o data).status = "ok"
                              THEN execute(ServerDecoder_decode(<<code>> \o data).pdu,
                                           ServerSlave("")).response
                              ELSE NoMessage]
    /\ UNCHANGED codecRest

\* framer.process_incoming_packet(packet, callback) on a client's framer, the
\* packet one whole frame
CodecClientFrame ==
    /\ last.op = "none"
    /\ \E kind \in CodecKinds, code \in CodecCodes, b \in CodecBytes :
          last' = [op |-> "process_incoming_packet", kind |-> kind,
                   message |-> <<code, b>>,
                   ret |-> process_incoming_packet(NewFramer(kind, "client"),
                              build_packet(NewFramer(kind, "client"),
                                  [OtherMessage(code, <<b>>)
                                   EXCEPT !.transaction_id = 1, !.unit_id = 1]))]
    /\ UNCHANGED codecRest

\* what decode made of the encoded message m
CodecDecoded(m, encoded) ==
    IF encoded.raised THEN NoMessage
    ELSE IF m.cls = "ReadBitsRequest"
    THEN ServerDecoder_decode(<<m.function_code>> \o encoded.v).pdu
    ELSE ClientDecoder_decode(<<m.function_code>> \o encoded.v).pdu

\* P.encode() and decode of the bytes
CodecRoundTrip ==
    /\ last.op = "none"
    /\ \E m \in CodecPdus :
          last' = [op |-> "round_trip", pdu |-> m, encoded |-> PduEncode(m),
                   ret |-> CodecDecoded(m, PduEncode(m))]
    /\ UNCHANGED codecRest

CodecNext ==
    \/ CodecClientDecode
    \/ CodecServerDecode
    \/ CodecClientFrame
    \/ CodecRoundTrip

SpecCodec == CodecInit /\ [][CodecNext]_vars

\* the ExceptionResponse the claim expects for the message <<code, b>>
ExpectedException(message, response) ==
    /\ response.cls = "ExceptionResponse"
    /\ response.original_code = message[1] - 128
    /\ response.function_code = message[1]
    /\ response.exception_code = message[2]

\* C28: ClientDecoder.decode of a message whose function code byte has the high
\* bit set, any of 0x80..0xFF, returns an ExceptionResponse whose function code
\* is the received one without the high bit and whose exception_code is the
\* payload byte.
C28_HighBitIsException ==
    (last.op = "ClientDecoder.decode" /\ last.message[1] >= 128) =>
        /\ last.ret.status = "ok"
        /\ ExpectedException(last.message, last.ret.pdu)

\* the same for the function codes 0x81..0xFF
C28_Above0x80 == (last.op = "ClientDecoder.decode" => last.message[1] # 128)
                    => C28_HighBitIsException

\* the message 0xFF 0x04 was decoded to the exception response of function 0x7F
\* with exception code 4
C28_Decoded0xFF ==
    /\ last.op = "ClientDecoder.decode" /\ last.message = <<255, 4>>
    /\ last.ret.status = "ok"
    /\ last.ret.pdu.original_code = 127 /\ last.ret.pdu.exception_code = 4

\* the message 0x80 0x01 was decoded to nothing
C28_Decoded0x80 ==
    /\ last.op = "ClientDecoder.decode" /\ last.message = <<128, 1>>
    /\ last.ret.status = "none" /\ last.ret.pdu = NoMessage

\* the framers whose get_frame hands the function code and the payload to the
\* decoder; ModbusBinaryFramer's leaves the function code out
DecodingKinds == {"tcp", "rtu", "ascii"}

\* C29: for a function code that is in no lookup table, ServerDecoder.decode
\* does not fail and returns an IllegalFunctionRequest carrying the code, which
\* the server answers with the exception response IllegalFunction; and
\* ClientDecoder.decode, the high bit of the code being clear, returns no PDU,
\* upon which process_incoming_packet raises ModbusIOException and has not
\* invoked the callback.
C29_UnknownFunctionCode ==
    /\ (last.op = "ServerDecoder.decode" /\ last.message[1] \notin FunctionTable) =>
          /\ last.ret.status = "ok"
          /\ last.ret.pdu = IllegalFunctionRequest(last.message[1])
          /\ last.answer =
                ExceptionResponse(last.message[1], ModbusExceptions.IllegalFunction)
    /\ (last.op = "ClientDecoder.decode" /\ last.message[1] \notin FunctionTable
            /\ last.message[1] < 128) =>
          /\ last.ret.status = "none"
          /\ last.ret.pdu = NoMessage
    /\ (last.op = "process_incoming_packet" /\ last.message[1] \notin FunctionTable
            /\ last.message[1] < 128 /\ last.kind \in DecodingKinds) =>
          /\ last.ret.exc = "ModbusIOException"
          /\ last.ret.results = <<>>

\* C29 witness: a frame with the function code 0x09, which is in no table, was
\* handed to process_incoming_packet of a client's TCP framer, which raised
\* ModbusIOException and made no callback
C29_Witness ==
    /\ last.op = "process_incoming_packet" /\ last.kind = "tcp"
    /\ last.message[1] = 9
    /\ last.ret.exc = "ModbusIOException" /\ last.ret.results = <<>>

\* the server's decoder made an IllegalFunctionRequest of the same code with a
\* payload, and the answer is exception code 1 under function code 0x89
C29_ServerDecoded ==
    /\ last.op = "ServerDecoder.decode" /\ last.message = <<9, 0, 0, 0, 1>>
    /\ last.ret.pdu.cls = "IllegalFunctionRequest" /\ last.ret.pdu.function_code = 9
    /\ last.answer.function_code = 137 /\ last.answer.exception_code = 1

\* bits followed by False up to the next multiple of eight
Padded(bits) ==
    [k \in 1..(8 * ((Len(bits) + 7) \div 8)) |-> IF k <= Len(bits) THEN bits[k] ELSE FALSE]

\* bit i of the list is bit (i - 1) mod 8, counted from the least significant,
\* of byte (i - 1) div 8 after the count byte
LsbFirst(bits, encoded) ==
    \A i \in 1..Len(bits) :
        bits[i] = (Bit(encoded[2 + ((i - 1) \div 8)], 2 ^ ((i - 1) % 8)) = 1)

\* the round trip of the claim for the message m
RoundTrips(m, encoded, ret) ==
    /\ ~encoded.raised
    /\ ret.cls = m.cls
    /\ m.cls = "ReadBitsRequest" =>
          /\ ret.address = m.address
          /\ ret.count = m.count
    /\ m.cls = "ReadBitsResponse" =>
          /\ ret.bits = Padded(m.bits)
          /\ ret.byte_count = (Len(m.bits) + 7) \div 8
          /\ Len(encoded.v) = 1 + ((Len(m.bits) + 7) \div 8)
          /\ LsbFirst(m.bits, encoded.v)

\* C30 as stated: for a read-bits request with any u16 address and count,
\* decode(encode(P)) restores address and count; for a read-bits response with
\* any bit list, decode(encode(P)) gives the bits followed only by False up to
\* the next multiple of 8, byte_count is ceil(len(bits) / 8) and the bits are
\* packed least significant first.
C30_AnyBitList ==
    last.op = "round_trip" => RoundTrips(last.pdu, last.encoded, last.ret)

\* C30: the same for the bit lists of at most 2040 bits, whose packed length
\* fits the one count byte
C30_BitReadRoundTrip ==
    (/\ last.op = "round_trip"
     /\ last.pdu.cls = "ReadBitsResponse" => Len(last.pdu.bits) <= 255 * 8)
        => RoundTrips(last.pdu, last.encoded, last.ret)

\* C30 witness: a response of nine bits went through encode and decode and came
\* back as sixteen, the last seven False, with byte_count 2
C30_Witness ==
    /\ last.op = "round_trip" /\ last.pdu.cls = "ReadBitsResponse"
    /\ Len(last.pdu.bits) = 9 /\ last.pdu.bits[9]
    /\ Len(last.ret.bits) = 16 /\ last.ret.byte_count = 2
    /\ SubSeq(last.ret.bits, 1, 9) = last.pdu.bits
    /\ \A k \in 10..16 : ~last.ret.bits[k]

\* a request with address 0xFFFF and count 0x1234 came back as it was
C30_Request ==
    /\ last.op = "round_trip" /\ last.pdu.cls = "ReadBitsRequest"
    /\ last.pdu.address = 65535 /\ last.pdu.count = 4660
    /\ last.encoded.v = <<255, 255, 18, 52>>
    /\ last.ret.address = 65535 /\ last.ret.count = 4660

\* encode of a response of 2041 bits raised struct.error
C30_TooLong ==
    /\ last.op = "round_trip" /\ last.pdu.cls = "ReadBitsResponse"
    /\ Len(last.pdu.bits) = (255 * 8) + 1
    /\ last.encoded.raised
====
